---------------------------- MODULE Spec2Model ----------------------------
(***************************************************************************)
(* A model of contrail, a powerline-style shell prompt renderer.           *)
(*                                                                         *)
(* Strings are sequences of one-character strings ("ESC" stands for the    *)
(* escape byte 0x1B).  Option<T> is <<>> (None) or <<v>> (Some(v)).        *)
(* Result<T, E> is <<"Ok", v>> or <<"Err", kind>>; a panic is <<"Panic">>. *)
(* A config::Value is <<"String", s>>, <<"Integer", i>>, <<"Boolean", b>>  *)
(* or <<"Array", seq>>.  A colour is <<"Blue">>, <<"Fixed", n>> or         *)
(* <<"RGB", r, g, b>>.                                                     *)
(***************************************************************************)
EXTENDS Integers, Sequences, FiniteSets, TLC

VARIABLES
    config,           \* the merged configuration: key path -> Value
    shell,            \* the shell identifier handed to the providers
    exit_code,        \* the exit status of the last command
    environment,      \* process environment: repository, directories
    segments,         \* the configured module list, in display order
    pos,              \* number of segments still to process (reverse walk)
    next_background,  \* chain renderer: background of the next visible segment
    last_successful,  \* legacy chain renderer: name of the next visible module
    accumulator,      \* outputs computed so far, in display order
    status,           \* "running", "done", "error" or "panic"
    call,             \* the arguments of the function under study
    result,           \* what that function returned
    send,             \* executor: number of live Sender handles of the channel
    recv,             \* executor: messages (i, stdout) in the channel
    threads,          \* executor: the state of each spawned thread
    results,          \* executor: the messages main has collected
    stdout,           \* executor: what main has printed
    pc                \* executor: where main is

vars == <<config, shell, exit_code, environment, segments, pos,
          next_background, last_successful, accumulator, status, call, result,
          send, recv, threads, results, stdout, pc>>

\* The executor's variables in a specification that does not run it.
ExecutorIdle ==
    /\ send = 0
    /\ recv = <<>>
    /\ threads = <<>>
    /\ results = <<>>
    /\ stdout = <<>>
    /\ pc = "idle"

ExecutorUnchanged == UNCHANGED <<send, recv, threads, results, stdout, pc>>


---------------------------------------------------------------------------
(* Option, Result and sequence helpers                                     *)

None == <<>>

Some(v) == <<v>>

IsSome(o) == o # <<>>

IsNone(o) == o = <<>>

Unwrap(o) == o[1]

Ok(v) == <<"Ok", v>>

Err(kind) == <<"Err", kind>>

Panic == <<"Panic">>

IsOk(r) == r[1] = "Ok"

IsErr(r) == r[1] = "Err"

IsPanic(r) == r[1] = "Panic"

\* The `?` operator: continue with the value of an Ok, return anything else.
AndThen(r, F(_)) == IF IsOk(r) THEN F(r[2]) ELSE r

\* `if let Ok(x) = first { .. } else if let Ok(x) = second { .. }`
OrElse(first, second) == IF IsOk(first) THEN first ELSE second

RECURSIVE Concat(_)
Concat(ss) == IF ss = <<>> THEN <<>> ELSE Head(ss) \o Concat(Tail(ss))

\* TRUE iff part occurs in whole as a contiguous run.
Contains(whole, part) ==
    \E i \in 0..(Len(whole) - Len(part)) :
        SubSeq(whole, i + 1, i + Len(part)) = part

Range(f) == { f[i] : i \in DOMAIN f }

---------------------------------------------------------------------------
(* Decimal formatting, as Display for integers writes it                   *)

Digits == <<"0", "1", "2", "3", "4", "5", "6", "7", "8", "9">>

RECURSIVE to_string(_)
to_string(n) ==
    IF n < 10 THEN <<Digits[n + 1]>>
    ELSE to_string(n \div 10) \o <<Digits[(n % 10) + 1]>>

---------------------------------------------------------------------------
(* ansi_term: colours, styles and the escape codes they write               *)

NamedColors == <<"Black", "Red", "Green", "Yellow", "Blue", "Purple", "Cyan", "White">>

\* Position of a named colour in the 8-colour palette (Black 0 .. White 7).
ColorIndex(c) == CHOOSE i \in 0..7 : NamedColors[i + 1] = c[1]

Color_Fixed(n) == <<"Fixed", n>>

Color_RGB(r, g, b) == <<"RGB", r, g, b>>

\* Style::new(): no colours, no attributes.
Style_new == [foreground |-> None, background |-> None, attrs |-> {}]

Style_on(style, bg) == [style EXCEPT !.background = Some(bg)]

Style_fg(style, fg) == [style EXCEPT !.foreground = Some(fg)]

Style_with(style, attr) == [style EXCEPT !.attrs = @ \union {attr}]

\* Colour::normal(): a style with only this colour as foreground.
Color_normal(c) == Style_fg(Style_new, c)

is_plain(style) == style = Style_new

AttrOrder ==
    <<"bold", "dimmed", "italic", "underline", "blink", "reverse", "hidden",
      "strikethrough">>

AttrCode(a) ==
    CASE a = "bold" -> "1"
      [] a = "dimmed" -> "2"
      [] a = "italic" -> "3"
      [] a = "underline" -> "4"
      [] a = "blink" -> "5"
      [] a = "reverse" -> "7"
      [] a = "hidden" -> "8"
      [] a = "strikethrough" -> "9"

\* The SGR parameter of a colour; base is "3" (foreground) or "4" (background).
color_code(c, base) ==
    CASE c[1] = "Fixed" -> <<base, "8", ";", "5", ";">> \o to_string(c[2])
      [] c[1] = "RGB" ->
            <<base, "8", ";", "2", ";">> \o to_string(c[2]) \o <<";">>
                \o to_string(c[3]) \o <<";">> \o to_string(c[4])
      [] OTHER -> <<base, Digits[ColorIndex(c) + 1]>>

write_foreground_code(c) == color_code(c, "3")

write_background_code(c) == color_code(c, "4")

RECURSIVE JoinCodes(_)
JoinCodes(codes) ==
    IF codes = <<>> THEN <<>>
    ELSE IF Len(codes) = 1 THEN codes[1]
    ELSE codes[1] \o <<";">> \o JoinCodes(Tail(codes))

\* The SGR parameters of a style: attributes, then background, then foreground.
StyleCodes(style) ==
    LET attrs == SelectSeq(AttrOrder, LAMBDA a : a \in style.attrs)
        acodes == [i \in 1..Len(attrs) |-> <<AttrCode(attrs[i])>>]
        bcodes == IF IsSome(style.background)
                  THEN <<write_background_code(Unwrap(style.background))>>
                  ELSE <<>>
        fcodes == IF IsSome(style.foreground)
                  THEN <<write_foreground_code(Unwrap(style.foreground))>>
                  ELSE <<>>
    IN  acodes \o bcodes \o fcodes

\* Style::prefix(): nothing for a plain style, else ESC [ codes m.
Style_prefix(style) ==
    IF is_plain(style) THEN <<>>
    ELSE <<"ESC", "[">> \o JoinCodes(StyleCodes(style)) \o <<"m">>

\* Style::suffix(): nothing for a plain style, else the reset sequence.
Style_suffix(style) ==
    IF is_plain(style) THEN <<>> ELSE <<"ESC", "[", "0", "m">>

Style_paint(style, text) == Style_prefix(style) \o text \o Style_suffix(style)

---------------------------------------------------------------------------
(* modules/mod.rs: ModuleStyle, ModuleOptions and format_for_module        *)

ModuleStyle_default ==
    [background |-> None, foreground |-> None, text_properties |-> None]

ModuleOptions_default ==
    [output |-> None, padding_left |-> <<" ">>, padding_right |-> <<" ">>,
     separator |-> <<>>, style |-> ModuleStyle_default]

FormatResult_default == [output |-> None, next_bg |-> None]

style_from_modulestyle(s) ==
    LET style0 == IF IsSome(s.text_properties) THEN Unwrap(s.text_properties)
                  ELSE Style_new
        style1 == IF IsSome(s.background)
                  THEN Style_on(style0, Unwrap(s.background)) ELSE style0
    IN  IF IsSome(s.foreground) THEN Style_fg(style1, Unwrap(s.foreground))
        ELSE style1

\* Variant: a shell without markers of its own gets bash's.
len_esc_for_shell_defaulting(sh) ==
    CASE sh = "Zsh" -> Ok(<<(<<"%", "{">>), (<<"%", "}">>)>>)
      [] OTHER -> Ok(<<(<<"\\", "[">>), (<<"\\", "]">>)>>)

\* The match on `shell` that picks the length-escape markers.
len_esc_for_shell(sh) ==
    CASE sh = "Bash" -> Ok(<<(<<"\\", "[">>), (<<"\\", "]">>)>>)
      [] sh = "Zsh" -> Ok(<<(<<"%", "{">>), (<<"%", "}">>)>>)
      [] OTHER -> Panic

\* Markers around the main content's escape codes.
content_len_esc(options, sh) ==
    IF IsNone(options.style.background) /\ IsNone(options.style.foreground)
    THEN Ok(<<(<<>>), (<<>>)>>)
    ELSE len_esc_for_shell(sh)

\* Variant: a separator with no background to lead into is refused.
separator_len_esc_requiring_next(options, next_bg, sh) ==
    IF IsNone(next_bg) THEN Panic ELSE len_esc_for_shell(sh)

\* Markers around the separator's escape codes.
separator_len_esc(options, next_bg, sh) ==
    IF IsNone(next_bg) /\ IsNone(options.style.background)
    THEN Ok(<<(<<>>), (<<>>)>>)
    ELSE len_esc_for_shell(sh)

\* Variant: the separator keeps the segment's own colours.
separator_modulestyle_unswapped(options, next_bg) ==
    [foreground |-> options.style.foreground,
     background |-> options.style.background,
     text_properties |-> options.style.text_properties]

\* The swapped style the separator is painted with.
separator_modulestyle(options, next_bg) ==
    [foreground |-> options.style.background,
     background |-> next_bg,
     text_properties |-> options.style.text_properties]

\* Variant: the override is used only when there is no computed content.
effective_content_computed_first(s, options) ==
    IF s = <<>> /\ IsSome(options.output) THEN Unwrap(options.output) ELSE s

\* The text that is formatted: the override if present, else the content.
effective_content(s, options) ==
    IF IsSome(options.output) THEN Unwrap(options.output) ELSE s

content_fragment(s, options, esc) ==
    LET style == style_from_modulestyle(options.style)
    IN  esc[1] \o Style_prefix(style) \o esc[2] \o options.padding_left
            \o effective_content(s, options) \o options.padding_right
            \o esc[1] \o Style_suffix(style) \o esc[2]

separator_fragment(options, next_bg, esc) ==
    LET style == style_from_modulestyle(separator_modulestyle(options, next_bg))
    IN  esc[1] \o Style_prefix(style) \o esc[2] \o options.separator
            \o esc[1] \o Style_suffix(style) \o esc[2]

\* format_for_module: Ok(string), or Panic for an unsupported shell.
format_for_module(s, options, next_bg, sh) ==
    AndThen(content_len_esc(options, sh), LAMBDA esc1 :
    AndThen(separator_len_esc(options, next_bg, sh), LAMBDA esc2 :
        Ok(content_fragment(s, options, esc1)
               \o separator_fragment(options, next_bg, esc2))))

---------------------------------------------------------------------------
(* Strings: lower-casing and integer parsing as the standard library does  *)

UpperLetters ==
    <<"A", "B", "C", "D", "E", "F", "G", "H", "I", "J", "K", "L", "M", "N",
      "O", "P", "Q", "R", "S", "T", "U", "V", "W", "X", "Y", "Z">>

LowerLetters ==
    <<"a", "b", "c", "d", "e", "f", "g", "h", "i", "j", "k", "l", "m", "n",
      "o", "p", "q", "r", "s", "t", "u", "v", "w", "x", "y", "z">>

lower_char(ch) ==
    IF \E i \in 1..26 : UpperLetters[i] = ch
    THEN LowerLetters[CHOOSE i \in 1..26 : UpperLetters[i] = ch]
    ELSE ch

to_lowercase(s) == [i \in 1..Len(s) |-> lower_char(s[i])]

IsDigit(ch) == \E i \in 1..10 : Digits[i] = ch

DigitValue(ch) == (CHOOSE i \in 1..10 : Digits[i] = ch) - 1

RECURSIVE DecimalValue(_)
DecimalValue(ds) ==
    IF ds = <<>> THEN 0
    ELSE 10 * DecimalValue(SubSeq(ds, 1, Len(ds) - 1)) + DigitValue(ds[Len(ds)])

U8_MAX == 255

\* str::parse::<u8>(): an optional "+", then one or more digits, at most 255.
parse_u8(s) ==
    LET ds == IF s # <<>> /\ s[1] = "+" THEN Tail(s) ELSE s
    IN  IF ds = <<>> THEN Err("ParseIntError")
        ELSE IF \E i \in 1..Len(ds) : ~IsDigit(ds[i]) THEN Err("ParseIntError")
        ELSE IF DecimalValue(ds) > U8_MAX THEN Err("ParseIntError")
        ELSE Ok(DecimalValue(ds))

\* str::split(','): the pieces between commas (always at least one piece).
RECURSIVE split_comma(_)
split_comma(s) ==
    IF \A i \in 1..Len(s) : s[i] # "," THEN <<s>>
    ELSE LET k == CHOOSE i \in 1..Len(s) :
                      s[i] = "," /\ \A j \in 1..(i - 1) : s[j] # ","
         IN  <<SubSeq(s, 1, k - 1)>> \o split_comma(SubSeq(s, k + 1, Len(s)))

---------------------------------------------------------------------------
(* config::Config and config::Value                                        *)

V_String(s) == <<"String", s>>

V_Integer(i) == <<"Integer", i>>

V_Boolean(b) == <<"Boolean", b>>

V_Array(a) == <<"Array", a>>

\* Config::get(key): the value stored under the key path, if any.
Config_get(c, key) == IF key \in DOMAIN c THEN Some(c[key]) ELSE None

\* Value::into_str(): scalars are converted to their text, arrays are not.
Value_into_str(v) ==
    CASE v[1] = "String" -> Some(v[2])
      [] v[1] = "Integer" ->
            Some(IF v[2] < 0 THEN <<"-">> \o to_string(0 - v[2]) ELSE to_string(v[2]))
      [] v[1] = "Boolean" ->
            Some(IF v[2] THEN <<"t", "r", "u", "e">> ELSE <<"f", "a", "l", "s", "e">>)
      [] OTHER -> None

\* Key paths built with format!("modules.{}.<field>", key).
ModuleKey(name, field) == <<"modules", name, field>>

---------------------------------------------------------------------------
(* modules/mod.rs: the colour and text-property parsers                    *)

\* Variant: uses Value::into_str(), which converts scalars of any kind.
unwrap_value_if_string_coercing(v) ==
    IF IsSome(Value_into_str(v)) THEN Ok(Unwrap(Value_into_str(v)))
    ELSE Err("InvalidTypeInConfig")

unwrap_value_if_string(v) ==
    IF v[1] = "String" THEN Ok(v[2]) ELSE Err("InvalidTypeInConfig")

\* impl From<ParseIntError>: the error kind a failed integer parse becomes.
FromParseIntError == "InvalidForm"

\* Variant: matches the name as written, without lower-casing it.
try_color_from_str_case_sensitive(s) ==
    CASE s = <<"b", "l", "a", "c", "k">> -> Ok(<<"Black">>)
      [] s = <<"r", "e", "d">> -> Ok(<<"Red">>)
      [] s = <<"g", "r", "e", "e", "n">> -> Ok(<<"Green">>)
      [] s = <<"y", "e", "l", "l", "o", "w">> -> Ok(<<"Yellow">>)
      [] s = <<"b", "l", "u", "e">> -> Ok(<<"Blue">>)
      [] s = <<"p", "u", "r", "p", "l", "e">> -> Ok(<<"Purple">>)
      [] s = <<"c", "y", "a", "n">> -> Ok(<<"Cyan">>)
      [] s = <<"w", "h", "i", "t", "e">> -> Ok(<<"White">>)
      [] OTHER -> Err("NoSuchMatchInConfig")

try_color_from_str(s) ==
    LET l == to_lowercase(s)
    IN  CASE l = <<"b", "l", "a", "c", "k">> -> Ok(<<"Black">>)
          [] l = <<"r", "e", "d">> -> Ok(<<"Red">>)
          [] l = <<"g", "r", "e", "e", "n">> -> Ok(<<"Green">>)
          [] l = <<"y", "e", "l", "l", "o", "w">> -> Ok(<<"Yellow">>)
          [] l = <<"b", "l", "u", "e">> -> Ok(<<"Blue">>)
          [] l = <<"p", "u", "r", "p", "l", "e">> -> Ok(<<"Purple">>)
          [] l = <<"c", "y", "a", "n">> -> Ok(<<"Cyan">>)
          [] l = <<"w", "h", "i", "t", "e">> -> Ok(<<"White">>)
          [] OTHER -> Err("NoSuchMatchInConfig")

\* `?` on a parse::<u8>(): the value, or the converted ParseIntError.
from_parse(n) == IF IsOk(n) THEN n ELSE Err(FromParseIntError)

try_fixed_from_str(s) ==
    AndThen(from_parse(parse_u8(s)), LAMBDA n : Ok(Color_Fixed(n)))

\* Variant: removes the parentheses of a piece but keeps its spaces.
rgb_clean_keeping_spaces(piece) == SelectSeq(piece, LAMBDA j : ~(j = "(" \/ j = ")"))

\* One piece of the split with every '(' , ')' and ' ' removed.
rgb_clean(piece) == SelectSeq(piece, LAMBDA j : ~(j = "(" \/ j = ")" \/ j = " "))

\* The loop `ints.push(i.parse::<u8>()?)`: all values, or the first error.
RECURSIVE parse_all(_)
parse_all(cleaned) ==
    IF cleaned = <<>> THEN Ok(<<>>)
    ELSE AndThen(from_parse(parse_u8(Head(cleaned))), LAMBDA n :
         AndThen(parse_all(Tail(cleaned)), LAMBDA rest : Ok(<<n>> \o rest)))

\* The test on the number of components.
rgb_from_ints(ints) ==
    IF Len(ints) # 3 THEN Err("ConfigParseFailure")
    ELSE Ok(Color_RGB(ints[1], ints[2], ints[3]))

\* `s.split(',').map(..).collect()`
rgb_pieces(pieces) == [i \in 1..Len(pieces) |-> rgb_clean(pieces[i])]

try_rgb_from_str(s) ==
    AndThen(parse_all(rgb_pieces(split_comma(s))), rgb_from_ints)

\* Variant: when all three parsers fail, returns the error of the last one.
color_from_string_last_error(s) ==
    AndThen(OrElse(try_color_from_str(s),
                   OrElse(try_fixed_from_str(s), try_rgb_from_str(s))),
            LAMBDA color : Ok(Some(color)))

\* The Value::String arm: the first of the three parsers that succeeds.
color_from_string(s) ==
    LET parsed == OrElse(try_color_from_str(s),
                         OrElse(try_fixed_from_str(s), try_rgb_from_str(s)))
    IN  IF IsOk(parsed) THEN Ok(Some(parsed[2])) ELSE Err("ConfigParseFailure")

\* Variant: `i as u8` without the range test, which wraps modulo 256.
color_from_value_wrapping(val) ==
    CASE val[1] = "Integer" -> Ok(Some(Color_Fixed(val[2] % (U8_MAX + 1))))
      [] val[1] = "String" -> color_from_string(val[2])
      [] OTHER -> Err("InvalidTypeInConfig")

\* The match on the kind of the value.
color_from_value(val) ==
    CASE val[1] = "Integer" ->
            IF val[2] < 0 \/ val[2] > 255 THEN Err("InvalidTypeInConfig")
            ELSE Ok(Some(Color_Fixed(val[2])))
      [] val[1] = "String" -> color_from_string(val[2])
      [] OTHER -> Err("InvalidTypeInConfig")

\* `Ok(Some(f(..)?))`
ok_some(r) == AndThen(r, LAMBDA v : Ok(Some(v)))

\* `if let Some(val) = config.get(key) { present(val) } else { Ok(absent) }`
if_configured(got, Present(_), absent) ==
    IF IsNone(got) THEN Ok(absent) ELSE Present(Unwrap(got))

try_color_from_config(key, c) ==
    if_configured(Config_get(c, key), color_from_value, None)

\* The attribute a lower-cased name stands for, if any.
text_prop_name(l) ==
    CASE l = <<"b", "o", "l", "d">> -> Some("bold")
      [] l = <<"b", "l", "i", "n", "k">> -> Some("blink")
      [] l = <<"d", "i", "m", "m", "e", "d">> -> Some("dimmed")
      [] l = <<"h", "i", "d", "d", "e", "n">> -> Some("hidden")
      [] l = <<"i", "t", "a", "l", "i", "c">> -> Some("italic")
      [] l = <<"r", "e", "v", "e", "r", "s", "e">> -> Some("reverse")
      [] l = <<"s", "t", "r", "i", "k", "e", "t", "h", "r", "o", "u", "g", "h">> ->
            Some("strikethrough")
      [] l = <<"u", "n", "d", "e", "r", "l", "i", "n", "e">> -> Some("underline")
      [] OTHER -> None

\* Variant: the named attribute replaces the attributes collected so far.
with_text_prop_replacing(style, m) ==
    IF IsSome(m) THEN Ok(Style_with(Style_new, Unwrap(m))) ELSE Err("NoSuchMatchInConfig")

\* One arm of the match: the style with the named attribute added.
with_text_prop(style, m) ==
    IF IsSome(m) THEN Ok(Style_with(style, Unwrap(m))) ELSE Err("NoSuchMatchInConfig")

\* Variant: the empty string is treated like an absent value.
try_text_prop_from_str_empty_as_absent(s) ==
    IF IsNone(s) \/ s = Some(<<>>) THEN Ok(Style_new)
    ELSE with_text_prop(Style_new, text_prop_name(to_lowercase(Unwrap(s))))

try_text_prop_from_str(s) ==
    IF IsNone(s) THEN Ok(Style_new)
    ELSE with_text_prop(Style_new, text_prop_name(to_lowercase(Unwrap(s))))

RECURSIVE text_props_fold(_, _)
text_props_fold(style, props) ==
    IF props = <<>> THEN Ok(style)
    ELSE AndThen(with_text_prop(style, text_prop_name(to_lowercase(Head(props)))),
                 LAMBDA next : text_props_fold(next, Tail(props)))

try_text_props_from_vec(props) == text_props_fold(Style_new, props)

\* `s.into_str().unwrap()` on one element of the array.
unwrap_into_str(v) == IF IsSome(v) THEN Ok(Unwrap(v)) ELSE Panic

\* `arr.into_iter().map(|s| s.into_str().unwrap()).collect()`
RECURSIVE array_into_strs(_)
array_into_strs(arr) ==
    IF arr = <<>> THEN Ok(<<>>)
    ELSE AndThen(unwrap_into_str(Value_into_str(Head(arr))), LAMBDA s :
         AndThen(array_into_strs(Tail(arr)), LAMBDA rest : Ok(<<s>> \o rest)))

\* The match on the kind of the value.
text_props_from_value(val) ==
    CASE val[1] = "String" -> ok_some(try_text_prop_from_str(Some(val[2])))
      [] val[1] = "Array" ->
            ok_some(AndThen(array_into_strs(val[2]), try_text_props_from_vec))
      [] OTHER -> Err("InvalidTypeInConfig")

try_text_props_from_config(key, c) ==
    if_configured(Config_get(c, key), text_props_from_value, None)

---------------------------------------------------------------------------
(* modules/mod.rs: read_style and read_options                             *)

\* Variant: a field the style table leaves unset is read from global.<field>.
read_style_with_global(key, c) ==
    AndThen(try_color_from_config(
                IF (key \o <<"background">>) \in DOMAIN c
                THEN key \o <<"background">> ELSE <<"global", "background">>, c), LAMBDA bg :
    AndThen(try_color_from_config(
                IF (key \o <<"foreground">>) \in DOMAIN c
                THEN key \o <<"foreground">> ELSE <<"global", "foreground">>, c), LAMBDA fg :
    AndThen(try_text_props_from_config(key \o <<"text_properties">>, c), LAMBDA text :
        Ok([background |-> bg, foreground |-> fg, text_properties |-> text]))))

read_style(key, c) ==
    AndThen(try_color_from_config(key \o <<"background">>, c), LAMBDA bg :
    AndThen(try_color_from_config(key \o <<"foreground">>, c), LAMBDA fg :
    AndThen(try_text_props_from_config(key \o <<"text_properties">>, c), LAMBDA text :
        Ok([background |-> bg, foreground |-> fg, text_properties |-> text]))))

\* Variant: an unset key yields the empty string instead of its default.
string_option_empty_default(key, c, default) ==
    if_configured(Config_get(c, key), unwrap_value_if_string, <<>>)

\* `if let Some(val) = config.get(key) { unwrap_value_if_string(val)? } else { default }`
string_option(key, c, default) ==
    if_configured(Config_get(c, key), unwrap_value_if_string, default)

\* `Some(unwrap_value_if_string(val)?)`
some_string(val) == ok_some(unwrap_value_if_string(val))

\* The optional output override: Some(string) if the key is set.
output_option(key, c) == if_configured(Config_get(c, key), some_string, None)

read_options(key, c) ==
    AndThen(string_option(ModuleKey(key, "padding_left"), c, <<" ">>), LAMBDA padding_left :
    AndThen(string_option(ModuleKey(key, "padding_right"), c, <<" ">>), LAMBDA padding_right :
    AndThen(string_option(ModuleKey(key, "separator"), c, <<>>), LAMBDA separator :
    AndThen(output_option(ModuleKey(key, "output"), c), LAMBDA overridden_output :
    AndThen(read_style(ModuleKey(key, "style"), c), LAMBDA style :
        Ok([output |-> overridden_output,
            padding_left |-> padding_left,
            padding_right |-> padding_right,
            separator |-> separator,
            style |-> style]))))))

---------------------------------------------------------------------------
(* modules/exit_code.rs, modules/prompt.rs, modules/generic.rs             *)
(* A provider returns Ok(FormatResult), Err(kind), or Panic.               *)

\* Variant: the result carries the background it was given for the
\* separator instead of the background of its own style.
formatted_result_passing_next_bg(s, options, next_bg, sh) ==
    AndThen(format_for_module(s, options, next_bg, sh), LAMBDA out :
        Ok([output |-> Some(out), next_bg |-> next_bg]))

\* The FormatResult built around a format_for_module call.
formatted_result(s, options, next_bg, sh) ==
    AndThen(format_for_module(s, options, next_bg, sh), LAMBDA out :
        Ok([output |-> Some(out), next_bg |-> options.style.background]))

\* `if exit_code == 0 { options.style = style_success } else { .. style_error }`
with_exit_style(options, code, style_success, style_error) ==
    [options EXCEPT !.style = IF code = 0 THEN style_success ELSE style_error]

\* A sub-style laid over the module's own style field by field.
merged_style(sub, own) ==
    [f \in DOMAIN sub |-> IF IsSome(sub[f]) THEN sub[f] ELSE own[f]]

\* Variant: the selected sub-style is merged into the module's style
\* instead of replacing it.
format_exit_code_merging(c, code, next_bg, sh) ==
    AndThen(read_options("exit_code", c), LAMBDA options :
    AndThen(read_style(ModuleKey("exit_code", "style_success"), c), LAMBDA style_success :
    AndThen(read_style(ModuleKey("exit_code", "style_error"), c), LAMBDA style_error :
        formatted_result(to_string(code),
                         with_exit_style(options, code,
                                         merged_style(style_success, options.style),
                                         merged_style(style_error, options.style)),
                         next_bg, sh))))

format_exit_code(c, code, next_bg, sh) ==
    AndThen(read_options("exit_code", c), LAMBDA options :
    AndThen(read_style(ModuleKey("exit_code", "style_success"), c), LAMBDA style_success :
    AndThen(read_style(ModuleKey("exit_code", "style_error"), c), LAMBDA style_error :
        formatted_result(to_string(code),
                         with_exit_style(options, code, style_success, style_error),
                         next_bg, sh))))

format_prompt(c, code, next_bg, sh) ==
    AndThen(read_options("prompt", c), LAMBDA options :
    AndThen(read_style(ModuleKey("prompt", "style_success"), c), LAMBDA style_success :
    AndThen(read_style(ModuleKey("prompt", "style_error"), c), LAMBDA style_error :
        formatted_result(<<"$">>,
                         with_exit_style(options, code, style_success, style_error),
                         next_bg, sh))))

\* `if options.output.is_some() { .. } else { Ok(FormatResult::default()) }`
generic_result(options, next_bg, sh) ==
    IF IsSome(options.output) THEN formatted_result(<<>>, options, next_bg, sh)
    ELSE Ok(FormatResult_default)

\* A module without a configured output taken as a configuration error.
generic_result_requiring_output(options, next_bg, sh) ==
    IF IsSome(options.output) THEN formatted_result(<<>>, options, next_bg, sh)
    ELSE Err("NoSuchMatchInConfig")

\* Variant: a module without a configured output is a configuration error.
format_generic_requiring_output(name, c, next_bg, sh) ==
    AndThen(read_options(name, c),
            LAMBDA options : generic_result_requiring_output(options, next_bg, sh))

format_generic(name, c, next_bg, sh) ==
    AndThen(read_options(name, c), LAMBDA options : generic_result(options, next_bg, sh))

---------------------------------------------------------------------------
(* modules.rs: the first generation of the formatter.  Its options are     *)
(* strings read from the configuration at render time; the shell is the    *)
(* string under global.shell.                                              *)

\* The defaults set with set_default, as <<key, value>> pairs.  The second
\* default given for modules.directory.background is the one that stays.
DefaultPairs ==
    <<<<<<"global", "modules">>, V_Array(<<V_String(<<"d", "i", "r", "e", "c", "t", "o", "r", "y">>), V_String(<<"g", "i", "t">>), V_String(<<"p", "r", "o", "m", "p", "t">>)>>)>>,
      <<<<"global", "shell">>, V_String(<<"b", "a", "s", "h">>)>>,
      <<<<"global", "foreground">>, V_String(<<"b", "r", "i", "g", "h", "t", "_", "w", "h", "i", "t", "e">>)>>,
      <<<<"global", "background">>, V_String(<<"b", "l", "u", "e">>)>>,
      <<<<"global", "style">>, V_String(<<"d", "e", "f", "a", "u", "l", "t">>)>>,
      <<<<"global", "separator">>, V_String(<<>>)>>,
      <<<<"global", "padding_left">>, V_String(<<" ">>)>>,
      <<<<"global", "padding_right">>, V_String(<<" ">>)>>,
      <<<<"modules", "directory", "max_depth">>, V_Integer(4)>>,
      <<<<"modules", "directory", "truncate_middle">>, V_Boolean(FALSE)>>,
      <<<<"modules", "exit_code", "bg_success">>, V_String(<<"g", "r", "e", "e", "n">>)>>,
      <<<<"modules", "exit_code", "bg_error">>, V_String(<<"r", "e", "d">>)>>,
      <<<<"modules", "directory", "background">>, V_String(<<"c", "y", "a", "n">>)>>,
      <<<<"modules", "git", "symbol_insertion">>, V_String(<<"+">>)>>,
      <<<<"modules", "git", "symbol_deletion">>, V_String(<<"-">>)>>,
      <<<<"modules", "git", "symbol_push">>, V_String(<<"U+21E1">>)>>,
      <<<<"modules", "git", "symbol_pull">>, V_String(<<"U+21E3">>)>>,
      <<<<"modules", "git", "show_changed">>, V_Boolean(TRUE)>>,
      <<<<"modules", "git", "show_diff_stats">>, V_Boolean(FALSE)>>,
      <<<<"modules", "git", "show_unpushed">>, V_Boolean(TRUE)>>,
      <<<<"modules", "prompt", "output">>, V_String(<<"$">>)>>,
      <<<<"modules", "prompt", "bg_success">>, V_String(<<"g", "r", "e", "e", "n">>)>>,
      <<<<"modules", "prompt", "bg_error">>, V_String(<<"r", "e", "d">>)>>>>

\* merge_defaults: every key of the defaults that the configuration leaves
\* unset gets its default value.
merge_defaults(c) ==
    LET keys == {DefaultPairs[i][1] : i \in 1..Len(DefaultPairs)}
        default(k) == DefaultPairs[CHOOSE i \in 1..Len(DefaultPairs) :
                                       DefaultPairs[i][1] = k][2]
    IN  [k \in keys \union DOMAIN c |-> IF k \in DOMAIN c THEN c[k] ELSE default(k)]

\* Config::set(key, value): the configuration with the key overwritten.
Config_set(c, key, value) ==
    [k \in DOMAIN c \union {key} |-> IF k = key THEN value ELSE c[k]]

\* Config::get_str(key): the value converted to a string, if there is one.
get_str(c, key) ==
    IF key \in DOMAIN c THEN Value_into_str(c[key]) ELSE None

\* Option::unwrap_or_default() on a string.
unwrap_or_default(o) == IF IsSome(o) THEN Unwrap(o) ELSE <<>>

\* `c.get_str(key).unwrap_or_else(|| c.get_str(fallback).unwrap_or_default())`
get_str_or_global(c, key, fallback) ==
    IF IsSome(get_str(c, key)) THEN Unwrap(get_str(c, key))
    ELSE unwrap_or_default(get_str(c, fallback))

\* The match on the lower-cased colour name.
colour_by_name(l) ==
    CASE l = <<"b", "l", "a", "c", "k">> -> Ok(Color_Fixed(0))
          [] l = <<"b", "r", "i", "g", "h", "t", "_", "b", "l", "a", "c", "k">> -> Ok(Color_Fixed(8))
          [] l = <<"r", "e", "d">> -> Ok(Color_Fixed(1))
          [] l = <<"b", "r", "i", "g", "h", "t", "_", "r", "e", "d">> -> Ok(Color_Fixed(9))
          [] l = <<"g", "r", "e", "e", "n">> -> Ok(Color_Fixed(2))
          [] l = <<"b", "r", "i", "g", "h", "t", "_", "g", "r", "e", "e", "n">> -> Ok(Color_Fixed(10))
          [] l = <<"y", "e", "l", "l", "o", "w">> -> Ok(Color_Fixed(3))
          [] l = <<"b", "r", "i", "g", "h", "t", "_", "y", "e", "l", "l", "o", "w">> -> Ok(Color_Fixed(11))
          [] l = <<"b", "l", "u", "e">> -> Ok(Color_Fixed(4))
          [] l = <<"b", "r", "i", "g", "h", "t", "_", "b", "l", "u", "e">> -> Ok(Color_Fixed(12))
          [] l = <<"p", "u", "r", "p", "l", "e">> -> Ok(Color_Fixed(5))
          [] l = <<"b", "r", "i", "g", "h", "t", "_", "p", "u", "r", "p", "l", "e">> -> Ok(Color_Fixed(13))
          [] l = <<"c", "y", "a", "n">> -> Ok(Color_Fixed(6))
          [] l = <<"b", "r", "i", "g", "h", "t", "_", "c", "y", "a", "n">> -> Ok(Color_Fixed(14))
          [] l = <<"w", "h", "i", "t", "e">> -> Ok(Color_Fixed(7))
          [] l = <<"b", "r", "i", "g", "h", "t", "_", "w", "h", "i", "t", "e">> -> Ok(Color_Fixed(15))
          [] OTHER -> Panic

string_to_colour(s) ==
    OrElse(AndThen(parse_u8(s), LAMBDA i : Ok(Color_Fixed(i))),
           colour_by_name(to_lowercase(s)))

\* The match on the lower-cased style name.
style_by_name(l) ==
    CASE l = <<"d", "e", "f", "a", "u", "l", "t">> \/ l = <<>> \/ l = <<"n", "o", "r", "m", "a", "l">> -> Ok(Style_new)
          [] l = <<"b", "o", "l", "d">> -> Ok(Style_with(Style_new, "bold"))
          [] l = <<"d", "i", "m", "m", "e", "d">> -> Ok(Style_with(Style_new, "dimmed"))
          [] l = <<"i", "t", "a", "l", "i", "c">> -> Ok(Style_with(Style_new, "italic"))
          [] l = <<"u", "n", "d", "e", "r", "l", "i", "n", "e">> -> Ok(Style_with(Style_new, "underline"))
          [] l = <<"b", "l", "i", "n", "k">> -> Ok(Style_with(Style_new, "blink"))
          [] l = <<"r", "e", "v", "e", "r", "s", "e">> -> Ok(Style_with(Style_new, "reverse"))
          [] l = <<"h", "i", "d", "d", "e", "n">> -> Ok(Style_with(Style_new, "hidden"))
          [] l = <<"s", "t", "r", "i", "k", "e", "t", "h", "r", "o", "u", "g", "h">> -> Ok(Style_with(Style_new, "strikethrough"))
          [] OTHER -> Panic

string_to_style(s) == style_by_name(to_lowercase(s))

\* `let mut bg = ..unwrap_or_default(); if bg == "" { bg = global.background }`
module_background(c, name) ==
    IF unwrap_or_default(get_str(c, ModuleKey(name, "background"))) = <<>>
    THEN unwrap_or_default(get_str(c, <<"global", "background">>))
    ELSE unwrap_or_default(get_str(c, ModuleKey(name, "background")))

\* The two matches on global.shell: zsh's markers, else bash's.
start_wrapper(sh) == IF sh = <<"z", "s", "h">> THEN <<"%", "{">> ELSE <<"\\", "[">>

end_wrapper(sh) == IF sh = <<"z", "s", "h">> THEN <<"%", "}">> ELSE <<"\\", "]">>

\* An escape sequence between the two wrappers.
wrapped(sh, codes) == start_wrapper(sh) \o codes \o end_wrapper(sh)

\* `format!` of the main content.
module_content(sh, main_style, padding_left, output, padding_right) ==
    wrapped(sh, Style_prefix(main_style)) \o padding_left \o output
        \o padding_right \o wrapped(sh, Style_suffix(main_style))

\* `format!` of the separator, painted with the given style.
module_separator(sh, style, separator) ==
    wrapped(sh, Style_prefix(style)) \o separator \o wrapped(sh, Style_suffix(style))

\* The style of the separator: `main_style.on(fg).fg(bg)`, then
\* `.on(next_bg)` if a visible module follows, else the bare colour `bg`.
module_separator_style(c, main_style, fg, bg, last) ==
    IF IsSome(last)
    THEN AndThen(string_to_colour(
                     get_str_or_global(c, ModuleKey(Unwrap(last), "background"),
                                       <<"global", "background">>)),
                 LAMBDA next_bg : Ok(Style_on(Style_fg(Style_on(main_style, fg), bg),
                                              next_bg)))
    ELSE Ok(Color_normal(bg))

\* The text that is formatted: the configured output if present.
module_output(c, name, output) ==
    IF IsSome(get_str(c, ModuleKey(name, "output")))
    THEN Unwrap(get_str(c, ModuleKey(name, "output")))
    ELSE Unwrap(output)

\* The part of format_module after the colours and the style are parsed.
module_formatted(c, name, output, last, fg, bg, text) ==
    AndThen(module_separator_style(c, Style_fg(Style_on(text, bg), fg), fg, bg,
                                   last),
            LAMBDA separator_style :
        Ok(<<Some(name),
             Some(module_content(
                      unwrap_or_default(get_str(c, <<"global", "shell">>)),
                      Style_fg(Style_on(text, bg), fg),
                      get_str_or_global(c, ModuleKey(name, "padding_left"),
                                        <<"global", "padding_left">>),
                      module_output(c, name, output),
                      get_str_or_global(c, ModuleKey(name, "padding_right"),
                                        <<"global", "padding_right">>))
                  \o module_separator(
                         unwrap_or_default(get_str(c, <<"global", "shell">>)),
                         separator_style,
                         get_str_or_global(c, ModuleKey(name, "separator"),
                                           <<"global", "separator">>)))>>))

\* format_module: Ok(<<name, content>>) (both None for a module with nothing
\* to format), or Panic.
format_module(c, name, output, last) ==
    IF IsNone(get_str(c, ModuleKey(name, "output"))) /\ IsNone(output)
    THEN Ok(<<None, None>>)
    ELSE AndThen(string_to_colour(get_str_or_global(c, ModuleKey(name, "foreground"),
                                               <<"global", "foreground">>)), LAMBDA fg :
         AndThen(string_to_colour(module_background(c, name)), LAMBDA bg :
         AndThen(string_to_style(get_str_or_global(c, ModuleKey(name, "style"),
                                                   <<"global", "style">>)), LAMBDA text :
             module_formatted(c, name, output, last, fg, bg, text))))

---------------------------------------------------------------------------
(* Input domains shared by the specifications                              *)

Str_Hello == <<"H", "e", "l", "l", "o">>

Str_modified == <<"m", "o", "d", "i", "f", "i", "e", "d">>

Shells == {"Bash", "Zsh", "Fish", "PowerShell"}

SupportedShells == {"Bash", "Zsh"}

SampleColors == {<<"Blue">>, <<"White">>, Color_Fixed(50)}

OptColors == {None} \union {Some(c) : c \in SampleColors}

SampleTextProps ==
    {None, Some(Style_new), Some(Style_with(Style_new, "bold")),
     Some(Style_with(Style_with(Style_new, "bold"), "italic"))}

SampleModuleStyles ==
    [background : OptColors, foreground : OptColors,
     text_properties : SampleTextProps]

SampleModuleOptions ==
    [output : {None, Some(Str_modified)},
     padding_left : {<<" ">>, <<>>},
     padding_right : {<<" ">>},
     separator : {<<>>, <<">">>},
     style : SampleModuleStyles]

\* Values of the variables a specification does not use.
UnusedWalk ==
    /\ environment = <<>>
    /\ ExecutorIdle
    /\ segments = <<>>
    /\ pos = 0
    /\ last_successful = None
    /\ accumulator = <<>>
    /\ status = "done"

Unused ==
    /\ UnusedWalk
    /\ shell = "Bash"
    /\ exit_code = 0
    /\ next_background = None

UnusedUnchanged ==
    UNCHANGED <<shell, exit_code, environment,
                send, recv, threads, results, stdout, pc,
                segments, pos,
                next_background, last_successful, accumulator, status>>

---------------------------------------------------------------------------
(* SpecFormat: format_for_module and format_module applied to sample inputs *)

FormatCalls ==
    [fn : {"format_for_module"}, s : {Str_Hello, <<>>},
     options : SampleModuleOptions, next_bg : OptColors, shell : Shells]

\* A configuration holding the pairs <<key, Some(value)>>; None leaves a key unset.
MakeConfig(pairs) ==
    LET present == {i \in 1..Len(pairs) : IsSome(pairs[i][2])}
    IN  [k \in {pairs[i][1] : i \in present} |->
            Unwrap(pairs[CHOOSE i \in present : pairs[i][1] = k][2])]

Str_bash == <<"b", "a", "s", "h">>

Str_zsh == <<"z", "s", "h">>

Str_fish == <<"f", "i", "s", "h">>

Str_red == <<"r", "e", "d">>

Str_bold == <<"b", "o", "l", "d">>

\* Values of global.shell: unset (the default is bash), or one of three names.
ShellValues ==
    {None, Some(V_String(Str_zsh)), Some(V_String(Str_fish)),
     Some(V_String(<<>>))}

\* A merged configuration for the module "user", followed by the module "next".
ModuleConfig(sh, bg, fg, style, sep, out, next) ==
    merge_defaults(MakeConfig(
        <<<<(<<"global", "shell">>), sh>>,
          <<ModuleKey("user", "background"), bg>>,
          <<ModuleKey("user", "foreground"), fg>>,
          <<ModuleKey("user", "style"), style>>,
          <<ModuleKey("user", "separator"), sep>>,
          <<ModuleKey("user", "output"), out>>,
          <<ModuleKey("next", "background"), next>>>>))

ModuleCalls ==
    [fn : {"format_module"}, name : {"user"}, output : {None, Some(Str_Hello)},
     last : {None, Some("next")}]

InitFormat ==
    /\ Unused
    /\ result = None
    /\ \/ /\ call \in FormatCalls
          /\ config = <<>>
       \/ /\ call \in ModuleCalls
          /\ \E sh \in ShellValues,
                bg \in {None, Some(V_String(Str_red)), Some(V_String(<<>>))},
                fg \in {None, Some(V_Integer(7))},
                style \in {None, Some(V_String(Str_bold))},
                sep \in {None, Some(V_String(<<">">>))},
                out \in {None, Some(V_String(Str_modified))},
                next \in {None, Some(V_Integer(200)), Some(V_String(<<>>))} :
                config = ModuleConfig(sh, bg, fg, style, sep, out, next)

FormatForModule ==
    /\ call.fn = "format_for_module"
    /\ result = None
    /\ result' = Some(format_for_module(call.s, call.options, call.next_bg,
                                        call.shell))
    /\ UNCHANGED <<config, call>>
    /\ UnusedUnchanged

FormatModule ==
    /\ call.fn = "format_module"
    /\ result = None
    /\ result' = Some(format_module(config, call.name, call.output, call.last))
    /\ UNCHANGED <<config, call>>
    /\ UnusedUnchanged

NextFormat == FormatForModule \/ FormatModule

SpecFormat == InitFormat /\ [][NextFormat]_vars

---------------------------------------------------------------------------
(* SpecOptions: read_options applied to sample configurations              *)

Str_blue == <<"b", "l", "u", "e">>

Str_white == <<"w", "h", "i", "t", "e">>

Str_teal == <<"t", "e", "a", "l">>

Str_italic == <<"i", "t", "a", "l", "i", "c">>

Str_invalid == <<"i", "n", "v", "a", "l", "i", "d">>

Str_50 == <<"5", "0">>

Str_rgb == <<"(", "6", ",", " ", "4", "7", ",", " ", "2", "0", "0", ")">>

PaddingLeftValues ==
    {None, Some(V_String(<<"|">>)), Some(V_Boolean(TRUE)), Some(V_Integer(3))}

PaddingRightValues == {None, Some(V_String(<<"/">>)), Some(V_Boolean(FALSE))}

SeparatorValues == {None, Some(V_String(<<">">>)), Some(V_Integer(0))}

OutputValues == {None, Some(V_String(Str_Hello)), Some(V_Boolean(TRUE))}

BackgroundValues ==
    {None, Some(V_String(Str_blue)), Some(V_String(Str_rgb)), Some(V_Integer(10)),
     Some(V_Integer(0 - 1)), Some(V_Integer(256)), Some(V_Boolean(TRUE)),
     Some(V_Array(<<V_String(<<"a">>)>>)), Some(V_String(Str_teal))}

ForegroundValues ==
    {None, Some(V_String(Str_white)), Some(V_String(Str_50)), Some(V_Boolean(FALSE))}

TextPropertiesValues ==
    {None, Some(V_String(Str_bold)), Some(V_String(Str_invalid)),
     Some(V_Array(<<V_String(Str_bold), V_String(Str_italic)>>)),
     Some(V_Array(<<V_String(Str_bold), V_Integer(3)>>)),
     Some(V_Array(<<V_Array(<<V_String(Str_bold)>>)>>)),
     Some(V_Boolean(TRUE)), Some(V_Integer(1))}

OptionsConfig(name, pl, pr, sep, out, bg, fg, tp) ==
    MakeConfig(<<
        <<ModuleKey(name, "padding_left"), pl>>,
        <<ModuleKey(name, "padding_right"), pr>>,
        <<ModuleKey(name, "separator"), sep>>,
        <<ModuleKey(name, "output"), out>>,
        <<ModuleKey(name, "style") \o <<"background">>, bg>>,
        <<ModuleKey(name, "style") \o <<"foreground">>, fg>>,
        <<ModuleKey(name, "style") \o <<"text_properties">>, tp>> >>)

InitOptions ==
    /\ Unused
    /\ \E pl \in PaddingLeftValues, pr \in PaddingRightValues,
          sep \in SeparatorValues, out \in OutputValues,
          bg \in BackgroundValues, fg \in ForegroundValues,
          tp \in TextPropertiesValues :
            config = OptionsConfig("prompt", pl, pr, sep, out, bg, fg, tp)
    /\ call = [fn |-> "read_options", key |-> "prompt"]
    /\ result = None

ReadOptions ==
    /\ call.fn = "read_options"
    /\ result = None
    /\ result' = Some(read_options(call.key, config))
    /\ UNCHANGED <<config, call>>
    /\ UnusedUnchanged

NextOptions == ReadOptions

SpecOptions == InitOptions /\ [][NextOptions]_vars

---------------------------------------------------------------------------
(* SpecProviders: format_exit_code, format_prompt and format_generic       *)

Str_green == <<"g", "r", "e", "e", "n">>

Str_hello == <<"h", "e", "l", "l", "o">>

ExitCodes == 0..U8_MAX

\* The three keys of one style table, all unset or all set.
StyleTable(key, bg, rest, fg, tp) ==
    <<<<key \o <<"background">>, bg>>,
      <<key \o <<"foreground">>, IF rest THEN Some(V_String(fg)) ELSE None>>,
      <<key \o <<"text_properties">>, IF rest THEN Some(V_String(tp)) ELSE None>>>>

ExitConfigs(name) ==
    {MakeConfig(
        StyleTable(ModuleKey(name, "style"),
                   IF own THEN Some(V_String(Str_blue)) ELSE None, own,
                   Str_white, Str_italic)
        \o StyleTable(ModuleKey(name, "style_success"), sbg, srest, Str_50, Str_bold)
        \o StyleTable(ModuleKey(name, "style_error"), ebg, erest, Str_white, Str_bold)) :
        own \in BOOLEAN,
        sbg \in {None, Some(V_String(Str_green))}, srest \in BOOLEAN,
        ebg \in {None, Some(V_String(Str_red)), Some(V_Boolean(TRUE))},
        erest \in BOOLEAN}

GenericConfigs(name) ==
    {OptionsConfig(name, pl, None, sep, out, bg, fg, None) :
        pl \in {None, Some(V_String(<<"|">>)), Some(V_Boolean(TRUE))},
        sep \in {None, Some(V_String(<<">">>))},
        out \in {None, Some(V_String(Str_hello)), Some(V_Boolean(TRUE))},
        bg \in {None, Some(V_String(Str_blue))},
        fg \in {None, Some(V_String(Str_white))}}

ProviderShells == {"Bash", "Zsh", "Fish"}

InitProviders ==
    /\ UnusedWalk
    /\ shell \in ProviderShells
    /\ next_background \in {None, Some(<<"Blue">>)}
    /\ result = None
    /\ \/ /\ call \in {[fn |-> "format_exit_code", name |-> "exit_code"],
                       [fn |-> "format_prompt", name |-> "prompt"]}
          /\ config \in ExitConfigs(call.name)
          /\ exit_code \in ExitCodes
       \/ /\ call \in {[fn |-> "format_generic", name |-> "exists"]}
          /\ config \in GenericConfigs(call.name)
          /\ exit_code = 0

ProviderFrame ==
    UNCHANGED <<config, shell, exit_code, environment,
                send, recv, threads, results, stdout, pc,
                segments, pos,
                next_background, last_successful, accumulator, status, call>>

FormatExitCode ==
    /\ call.fn = "format_exit_code"
    /\ result = None
    /\ result' = Some(format_exit_code(config, exit_code, next_background, shell))
    /\ ProviderFrame

FormatPrompt ==
    /\ call.fn = "format_prompt"
    /\ result = None
    /\ result' = Some(format_prompt(config, exit_code, next_background, shell))
    /\ ProviderFrame

FormatGeneric ==
    /\ call.fn = "format_generic"
    /\ result = None
    /\ result' = Some(format_generic(call.name, config, next_background, shell))
    /\ ProviderFrame

NextProviders == FormatExitCode \/ FormatPrompt \/ FormatGeneric

SpecProviders == InitProviders /\ [][NextProviders]_vars

---------------------------------------------------------------------------
(* Spec: the chain renderer.  The segment list is walked from its last     *)
(* name to its first; each step calls the provider of one segment with the *)
(* current next_background.                                                *)

MaxSegments == 3

Str_purple == <<"p", "u", "r", "p", "l", "e">>

Str_cyan == <<"c", "y", "a", "n">>

SegmentNames == {"exit_code", "prompt", "user", "empty"}

\* Sequences of at most n segment names.
SegmentLists(n) == UNION {[1..k -> SegmentNames] : k \in 0..n}

WalkExitCodes == {0, 1}

\* A configuration of the four modules: "user" always has an output and
\* "empty" never has one; bad puts a boolean where user's padding belongs.
ChainConfig(ubg, pbg, bad) ==
    MakeConfig(
        <<<<ModuleKey("exit_code", "separator"), Some(V_String(<<">">>))>>>>
        \o StyleTable(ModuleKey("exit_code", "style"), Some(V_String(Str_cyan)), TRUE,
                      Str_white, Str_italic)
        \o StyleTable(ModuleKey("exit_code", "style_success"),
                      Some(V_String(Str_green)), TRUE, Str_50, Str_bold)
        \o StyleTable(ModuleKey("exit_code", "style_error"),
                      Some(V_String(Str_red)), FALSE, Str_white, Str_bold)
        \o StyleTable(ModuleKey("prompt", "style_success"), pbg, TRUE, Str_white,
                      Str_bold)
        \o StyleTable(ModuleKey("prompt", "style_error"), Some(V_String(Str_rgb)),
                      FALSE, Str_white, Str_bold)
        \o <<<<ModuleKey("user", "output"), Some(V_String(Str_hello))>>,
             <<ModuleKey("user", "separator"), Some(V_String(<<">">>))>>,
             <<ModuleKey("user", "padding_left"),
               IF bad THEN Some(V_Boolean(TRUE)) ELSE None>>>>
        \o StyleTable(ModuleKey("user", "style"), ubg, TRUE, Str_white, Str_italic)
        \o <<<<ModuleKey("empty", "separator"), Some(V_String(<<">">>))>>>>
        \o StyleTable(ModuleKey("empty", "style"), Some(V_String(Str_white)), FALSE,
                      Str_white, Str_bold))

\* The provider a segment name is rendered by.
provider_for(name) ==
    CASE name = "exit_code" -> "format_exit_code"
      [] name = "prompt" -> "format_prompt"
      [] OTHER -> "format_generic"

\* Variant: every result, visible or not, sets next_background.
next_background_after_any(r, previous) == r.next_bg

\* next_background after a provider returned r: the background of a visible
\* segment; an invisible segment leaves it unchanged.
next_background_after(r, previous) ==
    IF IsSome(r.output) THEN r.next_bg ELSE previous

\* Variant: a new output is placed behind the outputs computed before it.
prepend_output_behind(r, acc) ==
    IF IsSome(r.output) THEN acc \o <<Unwrap(r.output)>> ELSE acc

\* The accumulator after a provider returned r: a visible segment's output
\* is placed in front of the outputs computed before it.
prepend_output(r, acc) ==
    IF IsSome(r.output) THEN <<Unwrap(r.output)>> \o acc ELSE acc

Init ==
    /\ environment = <<>>
    /\ ExecutorIdle
    /\ last_successful = None
    /\ shell \in ProviderShells
    /\ exit_code \in WalkExitCodes
    /\ segments \in SegmentLists(MaxSegments)
    /\ \E ubg \in {None, Some(V_String(Str_blue))},
          pbg \in {None, Some(V_String(Str_purple))},
          bad \in BOOLEAN :
          config = ChainConfig(ubg, pbg, bad)
    /\ pos = Len(segments)
    /\ next_background = None
    /\ accumulator = <<>>
    /\ status = "running"
    /\ call = [fn |-> "main"]
    /\ result = None

\* One step of the walk: the provider of segments[pos] returned r.
WalkStep(r) ==
    /\ call' = [fn |-> provider_for(segments[pos]), name |-> segments[pos],
                pos |-> pos, next_bg |-> next_background]
    /\ result' = Some(r)
    /\ IF IsOk(r)
       THEN /\ next_background' = next_background_after(r[2], next_background)
            /\ accumulator' = prepend_output(r[2], accumulator)
            /\ pos' = pos - 1
            /\ status' = status
       ELSE /\ status' = IF IsPanic(r) THEN "panic" ELSE "error"
            /\ UNCHANGED <<next_background, accumulator, pos>>
    /\ UNCHANGED <<config, shell, exit_code, environment,
                   send, recv, threads, results, stdout, pc,
                   segments, last_successful>>

RenderExitCode ==
    /\ status = "running"
    /\ pos >= 1
    /\ provider_for(segments[pos]) = "format_exit_code"
    /\ WalkStep(format_exit_code(config, exit_code, next_background, shell))

RenderPrompt ==
    /\ status = "running"
    /\ pos >= 1
    /\ provider_for(segments[pos]) = "format_prompt"
    /\ WalkStep(format_prompt(config, exit_code, next_background, shell))

RenderGeneric ==
    /\ status = "running"
    /\ pos >= 1
    /\ provider_for(segments[pos]) = "format_generic"
    /\ WalkStep(format_generic(segments[pos], config, next_background, shell))

\* The walk is over: the accumulated outputs are printed as one string.
PrintPrompt ==
    /\ status = "running"
    /\ pos = 0
    /\ status' = "done"
    /\ call' = [fn |-> "print"]
    /\ result' = Some(Concat(accumulator))
    /\ UNCHANGED <<config, shell, exit_code, environment,
                   send, recv, threads, results, stdout, pc,
                   segments, pos,
                   next_background, last_successful, accumulator>>

Next == RenderExitCode \/ RenderPrompt \/ RenderGeneric \/ PrintPrompt

Spec == Init /\ [][Next]_vars

---------------------------------------------------------------------------
(* SpecParsers: the colour and text-property parsers of both generations   *)
(* applied to sample strings and configuration values                      *)

\* The sixteen palette names in palette order: the name at position i is
\* the colour with index i - 1.
PaletteNames ==
    <<<<"b", "l", "a", "c", "k">>,
      <<"r", "e", "d">>,
      <<"g", "r", "e", "e", "n">>,
      <<"y", "e", "l", "l", "o", "w">>,
      <<"b", "l", "u", "e">>,
      <<"p", "u", "r", "p", "l", "e">>,
      <<"c", "y", "a", "n">>,
      <<"w", "h", "i", "t", "e">>,
      <<"b", "r", "i", "g", "h", "t", "_", "b", "l", "a", "c", "k">>,
      <<"b", "r", "i", "g", "h", "t", "_", "r", "e", "d">>,
      <<"b", "r", "i", "g", "h", "t", "_", "g", "r", "e", "e", "n">>,
      <<"b", "r", "i", "g", "h", "t", "_", "y", "e", "l", "l", "o", "w">>,
      <<"b", "r", "i", "g", "h", "t", "_", "b", "l", "u", "e">>,
      <<"b", "r", "i", "g", "h", "t", "_", "p", "u", "r", "p", "l", "e">>,
      <<"b", "r", "i", "g", "h", "t", "_", "c", "y", "a", "n">>,
      <<"b", "r", "i", "g", "h", "t", "_", "w", "h", "i", "t", "e">>>>

\* The eight text-property names.
TextPropOrder ==
    <<<<"b", "o", "l", "d">>,
      <<"d", "i", "m", "m", "e", "d">>,
      <<"i", "t", "a", "l", "i", "c">>,
      <<"u", "n", "d", "e", "r", "l", "i", "n", "e">>,
      <<"b", "l", "i", "n", "k">>,
      <<"r", "e", "v", "e", "r", "s", "e">>,
      <<"h", "i", "d", "d", "e", "n">>,
      <<"s", "t", "r", "i", "k", "e", "t", "h", "r", "o", "u", "g", "h">>>>

TextPropNames == {TextPropOrder[i] : i \in 1..8}

upper_char(ch) ==
    IF \E i \in 1..26 : LowerLetters[i] = ch
    THEN UpperLetters[CHOOSE i \in 1..26 : LowerLetters[i] = ch]
    ELSE ch

to_uppercase(s) == [i \in 1..Len(s) |-> upper_char(s[i])]

capitalised(s) == IF s = <<>> THEN s ELSE <<upper_char(s[1])>> \o Tail(s)

\* A name in lower case, in upper case and with a leading capital.
CaseVariants(s) == {s, to_uppercase(s), capitalised(s)}

\* The largest number written into sample strings and integer values.
MaxNumber == 258

\* Decimal strings, in range and out of range, with signs and leading zeros.
NumberStrings ==
    {to_string(n) : n \in 0..MaxNumber}
    \union {<<"-", "1">>, <<"+", "5">>, <<"0", "0", "7">>, <<"0", "2", "5", "6">>, <<"1", " ", "2">>, <<"-", "0">>}

RgbComponents == {0, 7, U8_MAX, U8_MAX + 1, MaxNumber}

\* "(r, g, b)" as the documentation writes a tuple.
tuple_string(r, g, b) ==
    <<"(">> \o to_string(r) \o <<",", " ">> \o to_string(g) \o <<",", " ">>
        \o to_string(b) \o <<")">>

Str_rgb4 == <<"(", "1", ",", "2", ",", "3", ",", "4", ")">>

Str_rgb2 == <<"(", "0", ",", " ", "0", ")">>

Str_rgb_trailing == <<"(", "0", ",", " ", "0", ",", " ", "0", ",", ")">>

Str_rgb_bare == <<"0", ",", " ", "1", "0", "0", ",", " ", "0">>

Str_rgb_parens == <<"(", "0", ",", " ", "0", ",", " ", "0", ")", ")">>

Str_rgb_word == <<"1", "0", "0", "0", ",", " ", "b", ",", " ", "c", ",", " ", "-", "1">>

Str_rgb_negative == <<"(", "0", ",", " ", "0", ",", " ", "-", "1", ")">>

Str_rgb_nested == <<"(", "(", "1", ")", " ", ",", " ", "(", " ", "2", ")", ",", "3", " ", ")">>

Str_bright_teal == <<"b", "r", "i", "g", "h", "t", "_", "t", "e", "a", "l">>

Str_default == <<"d", "e", "f", "a", "u", "l", "t">>

Str_normal == <<"n", "o", "r", "m", "a", "l">>

TupleStrings ==
    {tuple_string(r, g, b) : r \in RgbComponents, g \in RgbComponents, b \in RgbComponents}
    \union {Str_rgb4, Str_rgb2, Str_rgb_trailing, Str_rgb_bare, Str_rgb_parens,
            Str_rgb_word, Str_rgb_negative, Str_rgb_nested}

NameStrings ==
    UNION {CaseVariants(PaletteNames[i]) : i \in 1..16}
    \union {Str_teal, Str_bright_teal, Str_invalid, <<>>}

ColorStrings == NameStrings \union NumberStrings \union TupleStrings

IntegerValues == (0 - MaxNumber)..MaxNumber

ColorValues ==
    {None, Some(V_Boolean(TRUE)), Some(V_Array(<<V_Integer(1), V_Integer(2), V_Integer(3)>>))}
    \union {Some(V_String(s)) : s \in ColorStrings}
    \union {Some(V_Integer(n)) : n \in IntegerValues}

\* The longest list of text-property names.
MaxProps == 3

PropLists == UNION {[1..n -> TextPropNames] : n \in 0..MaxProps}

PropStrings ==
    UNION {CaseVariants(p) : p \in TextPropNames}
    \union {<<>>, Str_invalid, Str_default, Str_normal, Str_blue}

\* Lists with an unknown or empty name among known ones.
BadPropLists ==
    {<<Str_invalid>>, <<Str_bold, Str_invalid>>, <<Str_invalid, Str_bold>>,
     <<<<>>>>, <<Str_bold, <<>>>>, <<to_uppercase(Str_bold), capitalised(Str_italic)>>}

StringArray(l) == V_Array([i \in 1..Len(l) |-> V_String(l[i])])

PropValues ==
    {None, Some(V_Integer(1)), Some(V_Boolean(TRUE)),
     Some(V_Array(<<V_String(Str_bold), V_Integer(1)>>)),
     Some(V_Array(<<V_Boolean(TRUE)>>)),
     Some(V_Array(<<V_String(Str_bold), V_Array(<<>>)>>))}
    \union {Some(V_String(s)) : s \in PropStrings}
    \union {Some(StringArray(l)) : l \in BadPropLists}
    \union {Some(StringArray(l)) : l \in {p \in PropLists : Len(p) <= 2}}

ParserKey == <<"style", "value">>

ParserCalls ==
    [fn : {"try_color_from_str", "try_fixed_from_str", "try_rgb_from_str",
           "string_to_colour"}, arg : ColorStrings]
    \union [fn : {"try_color_from_config"}, arg : ColorValues]
    \union [fn : {"try_text_prop_from_str"},
            arg : {None} \union {Some(s) : s \in PropStrings}]
    \union [fn : {"string_to_style"}, arg : PropStrings]
    \union [fn : {"try_text_props_from_vec"}, arg : PropLists \union BadPropLists]
    \union [fn : {"try_text_props_from_config"}, arg : PropValues]

ConfigCalls == {"try_color_from_config", "try_text_props_from_config"}

InitParsers ==
    /\ Unused
    /\ result = None
    /\ call \in ParserCalls
    /\ config = IF call.fn \in ConfigCalls
                THEN MakeConfig(<<<<ParserKey, call.arg>>>>)
                ELSE MakeConfig(<<>>)

ParserFrame ==
    UNCHANGED <<config, shell, exit_code, environment,
                send, recv, threads, results, stdout, pc,
                segments, pos,
                next_background, last_successful, accumulator, status, call>>

TryColorFromStr ==
    /\ call.fn = "try_color_from_str"
    /\ result = None
    /\ result' = Some(try_color_from_str(call.arg))
    /\ ParserFrame

TryFixedFromStr ==
    /\ call.fn = "try_fixed_from_str"
    /\ result = None
    /\ result' = Some(try_fixed_from_str(call.arg))
    /\ ParserFrame

TryRgbFromStr ==
    /\ call.fn = "try_rgb_from_str"
    /\ result = None
    /\ result' = Some(try_rgb_from_str(call.arg))
    /\ ParserFrame

TryColorFromConfig ==
    /\ call.fn = "try_color_from_config"
    /\ result = None
    /\ result' = Some(try_color_from_config(ParserKey, config))
    /\ ParserFrame

TryTextPropFromStr ==
    /\ call.fn = "try_text_prop_from_str"
    /\ result = None
    /\ result' = Some(try_text_prop_from_str(call.arg))
    /\ ParserFrame

TryTextPropsFromVec ==
    /\ call.fn = "try_text_props_from_vec"
    /\ result = None
    /\ result' = Some(try_text_props_from_vec(call.arg))
    /\ ParserFrame

TryTextPropsFromConfig ==
    /\ call.fn = "try_text_props_from_config"
    /\ result = None
    /\ result' = Some(try_text_props_from_config(ParserKey, config))
    /\ ParserFrame

StringToColour ==
    /\ call.fn = "string_to_colour"
    /\ result = None
    /\ result' = Some(string_to_colour(call.arg))
    /\ ParserFrame

StringToStyle ==
    /\ call.fn = "string_to_style"
    /\ result = None
    /\ result' = Some(string_to_style(call.arg))
    /\ ParserFrame

NextParsers ==
    \/ TryColorFromStr
    \/ TryFixedFromStr
    \/ TryRgbFromStr
    \/ TryColorFromConfig
    \/ TryTextPropFromStr
    \/ TryTextPropsFromVec
    \/ TryTextPropsFromConfig
    \/ StringToColour
    \/ StringToStyle

SpecParsers == InitParsers /\ [][NextParsers]_vars

---------------------------------------------------------------------------
(* std::path: a path is its components and whether it ends in a separator. *)
(* The root directory is the component "/".                                *)

RootDir == <<"/">>

Ellipsis == <<".", ".", ".">>

Tilde == <<"~">>

\* PathBuf::new(), also PathBuf::default()
PathBuf_new == [comps |-> <<>>, slash |-> FALSE]

\* PathBuf::from(name) for a string that is one component ("~", "...").
PathBuf_from(name) == [comps |-> <<name>>, slash |-> FALSE]

\* PathBuf::from_iter(components): the components pushed one after another.
PathBuf_from_iter(components) == [comps |-> components, slash |-> FALSE]

is_absolute(p) == p.comps # <<>> /\ Head(p.comps) = RootDir

\* PathBuf::push(path): an absolute path replaces the buffer; an empty path
\* only adds a separator to a buffer that does not end in one.
PathBuf_push(p, q) ==
    IF is_absolute(q) THEN q
    ELSE IF q.comps = <<>>
         THEN [p EXCEPT !.slash = (p.comps # <<>> /\ p.comps # <<RootDir>>)]
    ELSE [comps |-> p.comps \o q.comps, slash |-> q.slash]

\* Path::join(path): a copy with the path pushed.
Path_join(p, q) == PathBuf_push(p, q)

\* Path::strip_prefix(base): the rest of the path after the components of base.
strip_prefix(p, base) ==
    IF Len(base.comps) <= Len(p.comps)
           /\ SubSeq(p.comps, 1, Len(base.comps)) = base.comps
    THEN Ok([comps |-> SubSeq(p.comps, Len(base.comps) + 1, Len(p.comps)),
             slash |-> p.slash /\ Len(base.comps) < Len(p.comps)])
    ELSE Err("StripPrefixError")

\* Path::components().count()
components_count(p) == Len(p.comps)

\* Names joined by the separator.
RECURSIVE join_components(_)
join_components(components) ==
    IF components = <<>> THEN <<>>
    ELSE IF Len(components) = 1 THEN components[1]
    ELSE components[1] \o <<"/">> \o join_components(Tail(components))

\* Path::display()
Path_display(p) ==
    (IF is_absolute(p) THEN RootDir \o join_components(Tail(p.comps))
     ELSE join_components(p.comps))
        \o (IF p.slash THEN <<"/">> ELSE <<>>)

---------------------------------------------------------------------------
(* config::Value conversions used by the first generation                  *)

\* A string of decimal digits with an optional minus sign, as i64.
parse_i64(s) ==
    IF s # <<>> /\ s[1] = "-" /\ Len(s) > 1 /\ \A i \in 2..Len(s) : IsDigit(s[i])
    THEN Some(0 - DecimalValue(Tail(s)))
    ELSE IF s # <<>> /\ \A i \in 1..Len(s) : IsDigit(s[i])
    THEN Some(DecimalValue(s))
    ELSE None

\* Value::into_int()
Value_into_int(v) ==
    CASE v[1] = "Integer" -> Some(v[2])
      [] v[1] = "String" -> parse_i64(v[2])
      [] v[1] = "Boolean" -> Some(IF v[2] THEN 1 ELSE 0)
      [] OTHER -> None

\* Value::into_bool()
Value_into_bool(v) ==
    CASE v[1] = "Boolean" -> Some(v[2])
      [] v[1] = "Integer" -> Some(v[2] # 0)
      [] v[1] = "String" ->
            IF to_lowercase(v[2]) \in {<<"1">>, <<"t", "r", "u", "e">>, <<"o", "n">>,
                                       <<"y", "e", "s">>}
            THEN Some(TRUE)
            ELSE IF to_lowercase(v[2]) \in {<<"0">>, <<"f", "a", "l", "s", "e">>,
                                            <<"o", "f", "f">>, <<"n", "o">>}
            THEN Some(FALSE)
            ELSE None
      [] OTHER -> None

\* Config::get_int(key).unwrap_or_default()
get_int_or_default(c, key) ==
    IF key \in DOMAIN c /\ IsSome(Value_into_int(c[key]))
    THEN Unwrap(Value_into_int(c[key])) ELSE 0

\* Config::get_bool(key).unwrap_or_default()
get_bool_or_default(c, key) ==
    IF key \in DOMAIN c /\ IsSome(Value_into_bool(c[key]))
    THEN Unwrap(Value_into_bool(c[key])) ELSE FALSE

\* The model's stand-in for 2^64: larger than every depth and every count.
UsizeRange == 1073741824

\* `n as usize`: a negative number wraps around.
as_usize(n) == IF n < 0 THEN UsizeRange + n ELSE n

---------------------------------------------------------------------------
(* modules/cwd.rs: format_cwd.  The environment env has the fields PWD and *)
(* HOME (Option<path>) and current_dir (Ok(path) or Err).                  *)

\* `if let Ok(pwd) = env::var("PWD") { .. } else { env::current_dir().unwrap_or_default() }`
cwd_from_environment(env) ==
    IF IsSome(env.PWD) THEN Unwrap(env.PWD)
    ELSE IF IsOk(env.current_dir) THEN env.current_dir[2]
    ELSE PathBuf_new

\* A leading $HOME replaced by "~", when HOME is set and is a prefix.
home_shortened(cwd, home) ==
    IF IsSome(home) /\ IsOk(strip_prefix(cwd, Unwrap(home)))
    THEN Path_join(PathBuf_from(Tilde), strip_prefix(cwd, Unwrap(home))[2])
    ELSE cwd

\* The default `4` of max_depth.
DefaultMaxDepth == 4

\* The match on the value of modules.cwd.max_depth.
max_depth_from_value(val) ==
    IF val[1] = "Integer" /\ val[2] >= 0 THEN Ok(val[2])
    ELSE Err("InvalidTypeInConfig")

cwd_max_depth(c) ==
    if_configured(Config_get(c, ModuleKey("cwd", "max_depth")), max_depth_from_value,
                  DefaultMaxDepth)

\* Components skipped from the front, as Iterator::skip does.
skip(components, n) == SubSeq(components, n + 1, Len(components))

\* Variant: keeps the first max_depth components after the marker.
truncated_leading_keeping_first(cwd, max_depth) ==
    IF components_count(cwd) > max_depth
    THEN PathBuf_push(PathBuf_from(Ellipsis),
                      PathBuf_from_iter(SubSeq(cwd.comps, 1, max_depth)))
    ELSE cwd

\* `if depth > max_depth { cwd = "..."; cwd.push(from_iter(iter.skip(depth - max_depth))) }`
truncated_leading(cwd, max_depth) ==
    IF components_count(cwd) > max_depth
    THEN PathBuf_push(PathBuf_from(Ellipsis),
                      PathBuf_from_iter(skip(cwd.comps, components_count(cwd) - max_depth)))
    ELSE cwd

\* The path that format_cwd displays.
cwd_displayed(env, max_depth) ==
    truncated_leading(home_shortened(cwd_from_environment(env), env.HOME), max_depth)

format_cwd(c, next_bg, sh, env) ==
    AndThen(read_options("cwd", c), LAMBDA options :
    AndThen(cwd_max_depth(c), LAMBDA max_depth :
        formatted_result(Path_display(cwd_displayed(env, max_depth)), options,
                         next_bg, sh)))

---------------------------------------------------------------------------
(* modules.rs: format_module_directory                                     *)

\* `env::var("HOME").unwrap()`, `env::current_dir().unwrap()`
unwrap_environment(env) ==
    IF IsNone(env.HOME) \/ ~IsOk(env.current_dir) THEN Panic
    ELSE Ok(home_shortened(env.current_dir[2], env.HOME))

\* The loop of the middle policy from the i-th component on: the first and
\* the last max_depth / 2 components are pushed, and the marker at
\* i = max_depth / 2.
RECURSIVE middle_loop(_, _, _, _)
middle_loop(components, i, max_depth, acc) ==
    IF i >= Len(components) THEN acc
    ELSE middle_loop(components, i + 1, max_depth,
            IF i < (max_depth \div 2) \/ i >= (Len(components) - (max_depth \div 2))
            THEN PathBuf_push(acc, PathBuf_from(components[i + 1]))
            ELSE IF i = (max_depth \div 2)
            THEN PathBuf_push(acc, PathBuf_from(Ellipsis))
            ELSE acc)

\* The loop of the leading policy: the components from depth - max_depth on.
RECURSIVE leading_loop(_, _, _, _)
leading_loop(components, i, max_depth, acc) ==
    IF i >= Len(components) THEN acc
    ELSE leading_loop(components, i + 1, max_depth,
            IF i >= Len(components) - max_depth
            THEN PathBuf_push(acc, PathBuf_from(components[i + 1]))
            ELSE acc)

\* `if depth > max_depth { .. if truncate_middle { .. } else { .. } }`
directory_truncated(shortened_cwd, max_depth, truncate_middle) ==
    IF components_count(shortened_cwd) > max_depth
    THEN IF truncate_middle
         THEN middle_loop(shortened_cwd.comps, 0, max_depth, PathBuf_new)
         ELSE leading_loop(shortened_cwd.comps, 0, max_depth, PathBuf_from(Ellipsis))
    ELSE shortened_cwd

\* The path that format_module_directory displays.
directory_displayed(c, shortened_cwd) ==
    directory_truncated(
        shortened_cwd,
        as_usize(get_int_or_default(c, ModuleKey("directory", "max_depth"))),
        get_bool_or_default(c, ModuleKey("directory", "truncate_middle")))

format_module_directory(c, last, env) ==
    AndThen(unwrap_environment(env), LAMBDA shortened_cwd :
        format_module(c, "directory",
                      Some(Path_display(directory_displayed(c, shortened_cwd))), last))

---------------------------------------------------------------------------
(* modules/git.rs: format_git.  env.repository is the result of            *)
(* Repository::discover: Err, or Ok of a record with the outcome of every  *)
(* query: head and diff (Ok or Err), shorthand (Option<string>), stats     *)
(* (Ok of the counts, or Err), upstream (Ok or Err), local_target and      *)
(* upstream_target (Option), ahead_behind (Ok(<<ahead, behind>>) or Err).  *)

\* `if let Some(name) = local.shorthand() { output.push_str(name) }`
branch_fragment(repo) ==
    IF IsSome(repo.shorthand) THEN Unwrap(repo.shorthand) ELSE <<>>

\* The " +" pushed when the diff and its statistics are available and some
\* file has changed.
changed_fragment(repo) ==
    IF IsOk(repo.diff) /\ IsOk(repo.stats) /\ repo.stats[2].files_changed > 0
    THEN <<" ", "+">> ELSE <<>>

\* `format!(" <symbol>{}", count)` when the count is not zero.
count_fragment(symbol, count) ==
    IF count > 0 THEN <<" ">> \o symbol \o to_string(count) ELSE <<>>

\* The ahead and behind counts, when the upstream, both targets and the
\* comparison are available.
upstream_fragment(repo) ==
    IF IsOk(repo.upstream) /\ IsSome(repo.local_target)
           /\ IsSome(repo.upstream_target) /\ IsOk(repo.ahead_behind)
    THEN count_fragment(<<"U+21E1">>, repo.ahead_behind[2][1])
             \o count_fragment(<<"U+21E3">>, repo.ahead_behind[2][2])
    ELSE <<>>

git_output(repo) ==
    branch_fragment(repo) \o changed_fragment(repo) \o upstream_fragment(repo)

\* `if output.is_empty() { Ok(FormatResult::default()) } else { .. }`
git_formatted(output, options, next_bg, sh) ==
    IF output = <<>> THEN Ok(FormatResult_default)
    ELSE formatted_result(output, options, next_bg, sh)

\* Variant: a repository that is not found is reported as an error.
git_result_requiring_repository(options, next_bg, sh, env) ==
    IF ~IsOk(env.current_dir) THEN Ok(FormatResult_default)
    ELSE IF ~IsOk(env.repository) THEN Err("FormatFailure")
    ELSE IF ~IsOk(env.repository[2].head) THEN Ok(FormatResult_default)
    ELSE git_formatted(git_output(env.repository[2]), options, next_bg, sh)

\* The part of format_git after read_options.
git_result(options, next_bg, sh, env) ==
    IF ~IsOk(env.current_dir) THEN Ok(FormatResult_default)
    ELSE IF ~IsOk(env.repository) THEN Ok(FormatResult_default)
    ELSE IF ~IsOk(env.repository[2].head) THEN Ok(FormatResult_default)
    ELSE git_formatted(git_output(env.repository[2]), options, next_bg, sh)

format_git(c, next_bg, sh, env) ==
    AndThen(read_options("git", c),
            LAMBDA options : git_result(options, next_bg, sh, env))

---------------------------------------------------------------------------
(* modules.rs: format_module_git                                           *)

\* `local.shorthand().unwrap()`
legacy_branch(repo) ==
    IF IsSome(repo.shorthand) THEN Ok(Unwrap(repo.shorthand)) ELSE Panic

\* `format!(" ({}{}, {}{})", symbol_deletion, deletions, symbol_insertion, insertions)`
diff_stats_fragment(c, stats) ==
    <<" ", "(">>
        \o unwrap_or_default(get_str(c, ModuleKey("git", "symbol_deletion")))
        \o to_string(stats.deletions) \o <<",", " ">>
        \o unwrap_or_default(get_str(c, ModuleKey("git", "symbol_insertion")))
        \o to_string(stats.insertions) \o <<")">>

\* `if diff_stats.files_changed() > 0 { if show_diffs { .. } else { .. } }`
changes_shown(c, stats) ==
    IF stats.files_changed > 0
    THEN IF get_bool_or_default(c, ModuleKey("git", "show_diff_stats"))
         THEN diff_stats_fragment(c, stats)
         ELSE <<" ">> \o unwrap_or_default(get_str(c, ModuleKey("git", "symbol_insertion")))
    ELSE <<>>

\* `if show_changed { diff_index_to_workdir(..).unwrap().stats().unwrap() .. }`
legacy_changed(c, repo) ==
    IF ~get_bool_or_default(c, ModuleKey("git", "show_changed")) THEN Ok(<<>>)
    ELSE IF ~IsOk(repo.diff) \/ ~IsOk(repo.stats) THEN Panic
    ELSE Ok(changes_shown(c, repo.stats[2]))

\* `format!(" {}{}", symbol, count)` when the count is not zero.
legacy_count_fragment(c, key, count) ==
    IF count # 0
    THEN <<" ">> \o unwrap_or_default(get_str(c, ModuleKey("git", key)))
             \o to_string(count)
    ELSE <<>>

\* `if show_unpushed { if let Ok(upstream) = .. { graph_ahead_behind(
\* local_ref.target().unwrap(), upstream_ref.target().unwrap()) .. } }`
legacy_unpushed(c, repo) ==
    IF ~get_bool_or_default(c, ModuleKey("git", "show_unpushed")) THEN Ok(<<>>)
    ELSE IF ~IsOk(repo.upstream) THEN Ok(<<>>)
    ELSE IF IsNone(repo.local_target) \/ IsNone(repo.upstream_target) THEN Panic
    ELSE IF ~IsOk(repo.ahead_behind) THEN Ok(<<>>)
    ELSE Ok(legacy_count_fragment(c, "symbol_push", repo.ahead_behind[2][1])
                \o legacy_count_fragment(c, "symbol_pull", repo.ahead_behind[2][2]))

legacy_git_output(c, repo) ==
    AndThen(legacy_branch(repo), LAMBDA name :
    AndThen(legacy_changed(c, repo), LAMBDA changed :
    AndThen(legacy_unpushed(c, repo), LAMBDA unpushed :
        Ok(name \o changed \o unpushed))))

\* `if output.is_empty() { (None, None) } else { format_module(c, "git", ..) }`
legacy_git_formatted(c, output, last) ==
    IF output = <<>> THEN Ok(<<None, None>>)
    ELSE format_module(c, "git", Some(output), last)

format_module_git(c, last, env) ==
    IF ~IsOk(env.current_dir) THEN Panic
    ELSE IF ~IsOk(env.repository) THEN Ok(<<None, None>>)
    ELSE IF ~IsOk(env.repository[2].head) THEN Ok(<<None, None>>)
    ELSE AndThen(legacy_git_output(c, env.repository[2]),
                 LAMBDA output : legacy_git_formatted(c, output, last))

---------------------------------------------------------------------------
(* SpecEnvironment: the providers that read the process environment        *)
(* (format_cwd, format_git, format_module_directory, format_module_git)    *)
(* applied to sample environments and configurations                       *)

\* The most directories below the root or below the home directory.
MaxDirs == 6

\* The i-th directory name: one letter.
DirName(i) == <<LowerLetters[i]>>

DirNames(k) == [i \in 1..k |-> DirName(i)]

HomePath == PathBuf_from_iter(<<RootDir, <<"h">>, <<"u">>>>)

\* /h/u/a/b/.. with k directories below the home directory.
UnderHome(k) == PathBuf_from_iter(HomePath.comps \o DirNames(k))

\* /a/b/.. with k directories below the root.
UnderRoot(k) == PathBuf_from_iter(<<RootDir>> \o DirNames(k))

SamplePaths ==
    {UnderHome(k) : k \in 0..MaxDirs} \union {UnderRoot(k) : k \in 0..MaxDirs}

NoRepository == Err("NotFound")

\* PWD and the current directory agree, or one of them is unavailable.
PathEnvironments ==
    {[PWD |-> pwd, HOME |-> home, current_dir |-> dir, repository |-> NoRepository] :
        pwd \in {None} \union {Some(p) : p \in SamplePaths},
        home \in {None, Some(HomePath)},
        dir \in {Err("NotFound")} \union {Ok(p) : p \in SamplePaths}}

CwdEnvironments ==
    {e \in PathEnvironments :
        IsNone(e.PWD) \/ ~IsOk(e.current_dir) \/ e.current_dir[2] = Unwrap(e.PWD)}

\* A configuration with one more key set, if a value is given.
WithValue(c, key, v) == IF IsSome(v) THEN Config_set(c, key, Unwrap(v)) ELSE c

MaxDepthValues ==
    {None, Some(V_Integer(0 - 1)), Some(V_String(<<"4">>))}
    \union {Some(V_Integer(n)) : n \in 0..(MaxDirs + 1)}

CwdConfigs ==
    {WithValue(OptionsConfig("cwd", pl, None, None, None, bg, None, None),
               ModuleKey("cwd", "max_depth"), md) :
        pl \in {None, Some(V_Boolean(TRUE))},
        bg \in {None, Some(V_String(Str_blue))},
        md \in MaxDepthValues}

DirectoryConfigs ==
    {merge_defaults(MakeConfig(
        <<<<ModuleKey("directory", "max_depth"), md>>,
          <<ModuleKey("directory", "truncate_middle"), middle>>>>)) :
        md \in MaxDepthValues,
        middle \in {None, Some(V_Boolean(TRUE)), Some(V_Boolean(FALSE))}}

Str_master == <<"m", "a", "s", "t", "e", "r">>

DiffStats(files_changed, insertions, deletions) ==
    [files_changed |-> files_changed, insertions |-> insertions,
     deletions |-> deletions]

\* Repositories with every combination of available and failing queries.
SampleRepositories ==
    [head : {Ok("Reference"), Err("UnbornBranch")},
     shorthand : {Some(Str_master), None},
     diff : {Ok("Diff"), Err("git2")},
     stats : {Ok(DiffStats(0, 0, 0)), Ok(DiffStats(2, 3, 1)), Err("git2")},
     upstream : {Ok("Branch"), Err("NotFound")},
     local_target : {Some("Oid"), None},
     upstream_target : {Some("Oid"), None},
     ahead_behind : {Ok(<<0, 0>>), Ok(<<2, 0>>), Ok(<<1, 3>>), Err("git2")}]

GitEnvironments ==
    [PWD : {Some(UnderHome(1))}, HOME : {Some(HomePath)},
     current_dir : {Ok(UnderHome(1)), Err("NotFound")},
     repository : {NoRepository} \union {Ok(r) : r \in SampleRepositories}]

GitConfigs ==
    {WithValue(WithValue(OptionsConfig("git", pl, None, None, None, bg, None, None),
                         ModuleKey("git", "show_changed"), changed),
               ModuleKey("git", "show_unpushed"), unpushed) :
        pl \in {None, Some(V_Boolean(TRUE))},
        bg \in {None, Some(V_String(Str_blue))},
        changed \in {None, Some(V_Boolean(FALSE))},
        unpushed \in {None, Some(V_Boolean(FALSE))}}

LegacyGitConfigs ==
    {merge_defaults(MakeConfig(
        <<<<ModuleKey("git", "show_changed"), changed>>,
          <<ModuleKey("git", "show_diff_stats"), stats>>,
          <<ModuleKey("git", "show_unpushed"), unpushed>>>>)) :
        changed \in {None, Some(V_Boolean(FALSE))},
        stats \in {None, Some(V_Boolean(TRUE))},
        unpushed \in {None, Some(V_Boolean(FALSE))}}

EnvironmentShells == {"Bash", "Fish"}

InitEnvironment ==
    /\ ExecutorIdle
    /\ segments = <<>>
    /\ pos = 0
    /\ last_successful = None
    /\ accumulator = <<>>
    /\ status = "done"
    /\ exit_code = 0
    /\ next_background = None
    /\ result = None
    /\ \/ /\ call = [fn |-> "format_cwd"]
          /\ config \in CwdConfigs
          /\ shell \in EnvironmentShells
          /\ environment \in CwdEnvironments
       \/ /\ call = [fn |-> "format_module_directory"]
          /\ config \in DirectoryConfigs
          /\ shell = "Bash"
          /\ environment \in CwdEnvironments
       \/ /\ call = [fn |-> "format_git"]
          /\ config \in GitConfigs
          /\ shell \in EnvironmentShells
          /\ environment \in GitEnvironments
       \/ /\ call = [fn |-> "format_module_git"]
          /\ config \in LegacyGitConfigs
          /\ shell = "Bash"
          /\ environment \in GitEnvironments

FormatCwd ==
    /\ call.fn = "format_cwd"
    /\ result = None
    /\ result' = Some(format_cwd(config, next_background, shell, environment))
    /\ ProviderFrame

FormatModuleDirectory ==
    /\ call.fn = "format_module_directory"
    /\ result = None
    /\ result' = Some(format_module_directory(config, last_successful, environment))
    /\ ProviderFrame

FormatGit ==
    /\ call.fn = "format_git"
    /\ result = None
    /\ result' = Some(format_git(config, next_background, shell, environment))
    /\ ProviderFrame

FormatModuleGit ==
    /\ call.fn = "format_module_git"
    /\ result = None
    /\ result' = Some(format_module_git(config, last_successful, environment))
    /\ ProviderFrame

NextEnvironment ==
    FormatCwd \/ FormatModuleDirectory \/ FormatGit \/ FormatModuleGit

SpecEnvironment == InitEnvironment /\ [][NextEnvironment]_vars

---------------------------------------------------------------------------
(* SpecLookup: format_generic and format_module applied to configurations  *)
(* that set, or leave unset, each style field of the segment "user" and    *)
(* each of global.foreground, global.background and global.style           *)

\* The values under global.*: unset, or a value no segment and no default uses.
GlobalPairs(fg, bg, style) ==
    <<<<(<<"global", "foreground">>), fg>>,
      <<(<<"global", "background">>), bg>>,
      <<(<<"global", "style">>), style>>>>

\* Configurations of format_generic: the style table of modules.user.
GenericLookupConfigs ==
    {MakeConfig(
        <<<<ModuleKey("user", "output"), Some(V_String(Str_Hello))>>,
          <<ModuleKey("user", "style") \o <<"foreground">>, fg>>,
          <<ModuleKey("user", "style") \o <<"background">>, bg>>,
          <<ModuleKey("user", "style") \o <<"text_properties">>, tp>>>>
        \o GlobalPairs(gfg, gbg, gstyle)) :
        fg \in {None, Some(V_String(Str_white))},
        bg \in {None, Some(V_String(Str_cyan))},
        tp \in {None, Some(V_String(Str_bold))},
        gfg \in {None, Some(V_String(Str_red))},
        gbg \in {None, Some(V_String(Str_green))},
        gstyle \in {None, Some(V_String(Str_italic))}}

\* Configurations of format_module before the defaults are merged.
ModuleLookupConfigs ==
    {MakeConfig(
        <<<<ModuleKey("user", "foreground"), fg>>,
          <<ModuleKey("user", "background"), bg>>,
          <<ModuleKey("user", "style"), style>>>>
        \o GlobalPairs(gfg, gbg, gstyle)) :
        fg \in {None, Some(V_String(Str_white))},
        bg \in {None, Some(V_String(Str_cyan)), Some(V_String(<<>>))},
        style \in {None, Some(V_String(Str_bold))},
        gfg \in {None, Some(V_String(Str_red))},
        gbg \in {None, Some(V_String(Str_green))},
        gstyle \in {None, Some(V_String(Str_italic))}}

InitLookup ==
    /\ UnusedWalk
    /\ exit_code = 0
    /\ next_background = None
    /\ result = None
    /\ \/ /\ call = [fn |-> "format_generic", name |-> "user"]
          /\ config \in GenericLookupConfigs
          /\ shell \in {"Bash", "Zsh"}
       \/ /\ call = [fn |-> "format_module", name |-> "user",
                     output |-> Some(Str_Hello), last |-> None]
          /\ config \in {merge_defaults(raw) : raw \in ModuleLookupConfigs}
          /\ shell = "Bash"

NextLookup == FormatGeneric \/ FormatModule

SpecLookup == InitLookup /\ [][NextLookup]_vars

---------------------------------------------------------------------------
(* main.rs: the command executor.  Every command given with -c runs in a   *)
(* thread of its own and sends (i, stdout) over an mpsc channel; main      *)
(* collects what was sent, sorts it and prints it.  Indices are counted    *)
(* from 1 here and from 0 in the source, so the header "#{i + 1}" of the   *)
(* source shows the index used here.                                       *)

\* The values of the command line: MATCHES.values_of("command"),
\* MATCHES.is_present("separator"), MATCHES.value_of("newlines").
commands == call.command

Str_trailing == <<"t", "r", "a", "i", "l", "i", "n", "g">>

Str_leading == <<"l", "e", "a", "d", "i", "n", "g">>

Str_all == <<"a", "l", "l">>

Newlines == {"\n", "\r"}

\* The index of the first and of the last character that is not a newline
\* (Len + 1 and 0 if there is none).
first_kept(input) ==
    IF \E i \in 1..Len(input) : input[i] \notin Newlines
    THEN CHOOSE i \in 1..Len(input) :
             input[i] \notin Newlines /\ \A j \in 1..(i - 1) : input[j] \in Newlines
    ELSE Len(input) + 1

last_kept(input) ==
    IF \E i \in 1..Len(input) : input[i] \notin Newlines
    THEN CHOOSE i \in 1..Len(input) :
             input[i] \notin Newlines /\ \A j \in (i + 1)..Len(input) : input[j] \in Newlines
    ELSE 0

\* Variant: "trailing" strips nothing.
strip_newlines_keeping(input, behavior) ==
    CASE behavior = Str_leading -> Ok(SubSeq(input, first_kept(input), Len(input)))
      [] behavior = Str_trailing -> Ok(input)
      [] behavior = Str_all -> Ok(SelectSeq(input, LAMBDA ch : ch \notin Newlines))
      [] OTHER -> Panic

strip_newlines(input, behavior) ==
    CASE behavior = Str_leading -> Ok(SubSeq(input, first_kept(input), Len(input)))
      [] behavior = Str_trailing -> Ok(SubSeq(input, 1, last_kept(input)))
      [] behavior = Str_all -> Ok(SelectSeq(input, LAMBDA ch : ch \notin Newlines))
      [] OTHER -> Panic

\* println!("#{}) `{}`", (i + 1), commands[i]): i is the position in the
\* sorted results, not the index a result carries.  "U+0060" stands for the
\* backtick.
header_line(i, cmds) ==
    <<"#">> \o to_string(i) \o <<")", " ", "U+0060">> \o cmds[i] \o <<"U+0060", "\n">>

\* Variant: the header names the command of the index the result carries.
header_for_carried_index(i, each, cmds) == header_line(each[1], cmds)

\* The header of the i-th iteration of the print loop, for the result each.
header_for(i, each, cmds) == header_line(i, cmds)

\* What one iteration of the print loop writes.
printed(i, each, matches) ==
    [header |-> IF matches.separator THEN Some(header_for(i, each, matches.command))
                ELSE None,
     output |-> IF IsSome(matches.newlines)
                THEN strip_newlines(each[2], Unwrap(matches.newlines))[2]
                ELSE each[2]]

\* The order of (usize, String): by index, then by text.  Bytes are ordered
\* as in this alphabet, which holds every character of the sample outputs.
ByteOrder == <<"\n", "\r", "0", "1", "2", "3", "4", "5", "6", "7", "8", "9">>

byte_rank(ch) == CHOOSE k \in 1..Len(ByteOrder) : ByteOrder[k] = ch

RECURSIVE str_less(_, _)
str_less(a, b) ==
    IF b = <<>> THEN FALSE
    ELSE IF a = <<>> THEN TRUE
    ELSE IF Head(a) # Head(b) THEN byte_rank(Head(a)) < byte_rank(Head(b))
    ELSE str_less(Tail(a), Tail(b))

tuple_less(a, b) == a[1] < b[1] \/ (a[1] = b[1] /\ str_less(a[2], b[2]))

\* Variant: the results stay in the order they were received in.
sort_as_received(rs) == rs

\* `results.sort()`
sort(rs) == SortSeq(rs, tuple_less)

\* Variant: dropping a Sender leaves the channel open.
Sender_drop_leaking(senders) == senders

\* A Sender is dropped: one live handle less.
Sender_drop(senders) == senders - 1

\* `mpsc::Sender::clone(&send)`
Sender_clone(senders) == senders + 1

---------------------------------------------------------------------------
(* SpecExecutor: main of main.rs with one to MaxCommands commands, every   *)
(* outcome of every command, and every interleaving of the threads         *)

\* The most commands given on the command line.
MaxCommands == 3

\* The k-th command, and what it writes when it succeeds.
CommandOf(k) == <<"c">> \o to_string(k)

StdoutOf(k) == <<"\n">> \o to_string(k) \o <<"\n">>

\* What Command::output, the exit status and String::from_utf8 can give.
CommandOutcomes == {"failed to execute", "failed with status", "not valid utf8", "stdout"}

ExecutorCalls ==
    {[fn |-> "main", command |-> [k \in 1..n |-> CommandOf(k)],
      separator |-> sep, newlines |-> nl] :
        n \in 1..MaxCommands, sep \in BOOLEAN,
        nl \in {None, Some(Str_leading), Some(Str_trailing), Some(Str_all)}}

InitExecutor ==
    /\ config = <<>>
    /\ environment = None
    /\ segments = <<>>
    /\ pos = 0
    /\ last_successful = None
    /\ accumulator = <<>>
    /\ status = "done"
    /\ shell = "Bash"
    /\ exit_code = 0
    /\ next_background = None
    /\ result = None
    /\ call \in ExecutorCalls
    /\ send = 1
    /\ recv = <<>>
    /\ threads = <<>>
    /\ results = <<>>
    /\ stdout = <<>>
    /\ pc = "spawn"

ExecutorFrame ==
    UNCHANGED <<config, shell, exit_code, segments, pos, environment,
                next_background, last_successful, accumulator, status, call, result>>

\* One iteration of the loop over the commands: the Sender is cloned and a
\* thread is spawned.
Spawn ==
    /\ pc = "spawn"
    /\ Len(threads) < Len(commands)
    /\ send' = Sender_clone(send)
    /\ threads' = Append(threads, [at |-> "running", stdout |-> None])
    /\ UNCHANGED <<recv, results, stdout, pc>>
    /\ ExecutorFrame

\* `drop(send)`
DropSend ==
    /\ pc = "spawn"
    /\ Len(threads) = Len(commands)
    /\ send' = Sender_drop(send)
    /\ pc' = "collect"
    /\ UNCHANGED <<recv, threads, results, stdout>>
    /\ ExecutorFrame

\* Thread i ran its command.  A command that cannot be started, that exits
\* unsuccessfully or whose output is not UTF-8 makes the thread panic, and
\* the unwinding drops its Sender.
RunCommand(i) ==
    /\ threads[i].at = "running"
    /\ \E outcome \in CommandOutcomes :
          IF outcome = "stdout"
          THEN /\ threads' = [threads EXCEPT ![i] = [at |-> "sending",
                                                     stdout |-> Some(StdoutOf(i))]]
               /\ send' = send
          ELSE /\ threads' = [threads EXCEPT ![i] = [at |-> "panicked",
                                                     stdout |-> None]]
               /\ send' = Sender_drop(send)
    /\ UNCHANGED <<recv, results, stdout, pc>>
    /\ ExecutorFrame

\* `tx.send((i, stdout)).unwrap()`
Send(i) ==
    /\ threads[i].at = "sending"
    /\ recv' = Append(recv, <<i, Unwrap(threads[i].stdout)>>)
    /\ threads' = [threads EXCEPT ![i].at = "sent"]
    /\ UNCHANGED <<send, results, stdout, pc>>
    /\ ExecutorFrame

\* The closure of thread i returns and its Sender is dropped.
ThreadExit(i) ==
    /\ threads[i].at = "sent"
    /\ threads' = [threads EXCEPT ![i].at = "finished"]
    /\ send' = Sender_drop(send)
    /\ UNCHANGED <<recv, results, stdout, pc>>
    /\ ExecutorFrame

\* `recv.iter()` yields the next message.
Receive ==
    /\ pc = "collect"
    /\ recv # <<>>
    /\ results' = Append(results, Head(recv))
    /\ recv' = Tail(recv)
    /\ UNCHANGED <<send, threads, stdout, pc>>
    /\ ExecutorFrame

\* `recv.iter()` ends: the channel is empty and every Sender is dropped.
\* The collected results are sorted.
CollectAndSort ==
    /\ pc = "collect"
    /\ recv = <<>>
    /\ send = 0
    /\ results' = sort(results)
    /\ pc' = "print"
    /\ UNCHANGED <<send, recv, threads, stdout>>
    /\ ExecutorFrame

\* One iteration of `for (i, each) in results.iter().enumerate()`.
PrintResult ==
    /\ pc = "print"
    /\ Len(stdout) < Len(results)
    /\ stdout' = Append(stdout, printed(Len(stdout) + 1, results[Len(stdout) + 1], call))
    /\ UNCHANGED <<send, recv, threads, results, pc>>
    /\ ExecutorFrame

\* main returns.
Return ==
    /\ pc = "print"
    /\ Len(stdout) = Len(results)
    /\ pc' = "done"
    /\ UNCHANGED <<send, recv, threads, results, stdout>>
    /\ ExecutorFrame

MainThread == Spawn \/ DropSend \/ Receive \/ CollectAndSort \/ PrintResult \/ Return

NextExecutor ==
    \/ Spawn
    \/ DropSend
    \/ \E i \in 1..Len(threads) : RunCommand(i)
    \/ \E i \in 1..Len(threads) : Send(i)
    \/ \E i \in 1..Len(threads) : ThreadExit(i)
    \/ Receive
    \/ CollectAndSort
    \/ PrintResult
    \/ Return

SpecExecutor == InitExecutor /\ [][NextExecutor]_vars

\* The scheduler runs every thread that can take a step.  A command may run
\* for ever, so RunCommand is not required to happen.
FairExecutor ==
    /\ WF_vars(MainThread)
    /\ \A i \in 1..MaxCommands :
          WF_vars(i <= Len(threads) /\ (Send(i) \/ ThreadExit(i)))

SpecExecutorFair == SpecExecutor /\ FairExecutor

---------------------------------------------------------------------------
(* modules.rs: format_module_prompt and format_module_exit_code.  Both take *)
(* `c: &mut Config` and write the background they selected into it before  *)
(* they call format_module.                                                *)

\* `match exit_code.as_ref() { "0" => ..bg_success.., _ => ..bg_error.. }`
exit_background(c, name, code) ==
    IF code = <<"0">>
    THEN unwrap_or_default(get_str(c, ModuleKey(name, "bg_success")))
    ELSE unwrap_or_default(get_str(c, ModuleKey(name, "bg_error")))

\* Variant: the configuration is left as it was.
background_set_nowhere(c, name, code) == c

\* `c.set("modules.<name>.background", bg).unwrap()`
background_set(c, name, code) ==
    Config_set(c, ModuleKey(name, "background"), V_String(exit_background(c, name, code)))

format_module_prompt(c, last, code) ==
    format_module(background_set(c, "prompt", code), "prompt",
                  Some(unwrap_or_default(get_str(c, ModuleKey("prompt", "output")))),
                  last)

format_module_exit_code(c, last, code) ==
    format_module(background_set(c, "exit_code", code), "exit_code", Some(code), last)

---------------------------------------------------------------------------
(* SpecSegments: every segment provider of both generations applied once   *)
(* to a sample configuration                                               *)

SegmentExitCodes == {0, 1, U8_MAX}

\* The current directory at every sample depth, PWD unset, HOME set.
SegmentDirectories ==
    {e \in CwdEnvironments : IsNone(e.PWD) /\ IsSome(e.HOME)}

\* Merged configurations of the older prompt and exit_code modules.
LegacyExitConfigs(name) ==
    {merge_defaults(MakeConfig(
        <<<<ModuleKey(name, "background"), bg>>,
          <<ModuleKey(name, "bg_success"), success>>,
          <<ModuleKey(name, "bg_error"), error>>>>)) :
        bg \in {None, Some(V_String(Str_blue))},
        success \in {None, Some(V_String(Str_cyan))},
        error \in {None, Some(V_String(Str_purple)), Some(V_String(<<>>))}}

InitSegments ==
    /\ ExecutorIdle
    /\ segments = <<>>
    /\ pos = 0
    /\ accumulator = <<>>
    /\ status = "done"
    /\ result = None
    /\ \/ /\ call \in {[fn |-> "format_exit_code", name |-> "exit_code"],
                       [fn |-> "format_prompt", name |-> "prompt"]}
          /\ config \in ExitConfigs(call.name)
          /\ exit_code \in SegmentExitCodes
          /\ shell \in ProviderShells
          /\ next_background \in {None, Some(<<"Blue">>)}
          /\ last_successful = None
          /\ environment = <<>>
       \/ /\ call = [fn |-> "format_generic", name |-> "exists"]
          /\ config \in GenericConfigs(call.name)
          /\ exit_code = 0
          /\ shell \in ProviderShells
          /\ next_background \in {None, Some(<<"Blue">>)}
          /\ last_successful = None
          /\ environment = <<>>
       \/ /\ call = [fn |-> "format_cwd", name |-> "cwd"]
          /\ config \in CwdConfigs
          /\ exit_code = 0
          /\ shell \in EnvironmentShells
          /\ next_background \in {None, Some(<<"Blue">>)}
          /\ last_successful = None
          /\ environment \in SegmentDirectories
       \/ /\ call = [fn |-> "format_git", name |-> "git"]
          /\ config \in GitConfigs
          /\ exit_code = 0
          /\ shell \in EnvironmentShells
          /\ next_background \in {None, Some(<<"Blue">>)}
          /\ last_successful = None
          /\ environment \in GitEnvironments
       \/ /\ call \in {[fn |-> "format_module_prompt", name |-> "prompt"],
                       [fn |-> "format_module_exit_code", name |-> "exit_code"]}
          /\ config \in LegacyExitConfigs(call.name)
          /\ exit_code \in SegmentExitCodes
          /\ shell = "Bash"
          /\ next_background = None
          /\ last_successful \in {None, Some("git")}
          /\ environment = <<>>

\* The frame of a provider that takes `c: &mut Config`.
LegacyFrame ==
    /\ UNCHANGED <<shell, exit_code, segments, pos, environment,
                   next_background, last_successful, accumulator, status, call>>
    /\ ExecutorUnchanged

FormatModulePrompt ==
    /\ call.fn = "format_module_prompt"
    /\ result = None
    /\ result' = Some(format_module_prompt(config, last_successful, to_string(exit_code)))
    /\ config' = background_set(config, "prompt", to_string(exit_code))
    /\ LegacyFrame

FormatModuleExitCode ==
    /\ call.fn = "format_module_exit_code"
    /\ result = None
    /\ result' = Some(format_module_exit_code(config, last_successful, to_string(exit_code)))
    /\ config' = background_set(config, "exit_code", to_string(exit_code))
    /\ LegacyFrame

NextSegments ==
    \/ FormatExitCode
    \/ FormatPrompt
    \/ FormatGeneric
    \/ FormatCwd
    \/ FormatGit
    \/ FormatModulePrompt
    \/ FormatModuleExitCode

SpecSegments == InitSegments /\ [][NextSegments]_vars

---------------------------------------------------------------------------
(* Properties of read_options (SpecOptions)                                *)

StringFields == {"padding_left", "padding_right", "separator", "output"}

StyleFields == {"background", "foreground", "text_properties"}

StyleKey(name, field) == ModuleKey(name, "style") \o <<field>>

OptionKeys(name) ==
    {ModuleKey(name, f) : f \in StringFields} \union {StyleKey(name, f) : f \in StyleFields}

ReadOptionsReturned == call.fn = "read_options" /\ IsSome(result)

\* The string stored under modules.<name>.<field>, or the default if unset.
StringOrDefault(c, name, field, default) ==
    IF IsSome(Config_get(c, ModuleKey(name, field)))
    THEN Unwrap(Config_get(c, ModuleKey(name, field)))[2]
    ELSE default

\* C9: read_options takes padding_left, padding_right, separator and output
\* from modules.<name>.<field>; an unset field gets its default (a single
\* space for each padding, the empty string for the separator, None for
\* the output, None for each unset style field), and with no key set the
\* result is Ok(ModuleOptions::default()).
C9_ReadOptionsDefaults ==
    ReadOptionsReturned =>
        LET r == Unwrap(result)
            o == r[2]
            name == call.key
        IN  /\ (\A k \in OptionKeys(name) : IsNone(Config_get(config, k)))
                    => r = Ok(ModuleOptions_default)
            /\ IsOk(r) =>
                /\ o.padding_left = StringOrDefault(config, name, "padding_left", <<" ">>)
                /\ o.padding_right = StringOrDefault(config, name, "padding_right", <<" ">>)
                /\ o.separator = StringOrDefault(config, name, "separator", <<>>)
                /\ o.output =
                        IF IsSome(Config_get(config, ModuleKey(name, "output")))
                        THEN Some(config[ModuleKey(name, "output")][2])
                        ELSE None
                /\ \A f \in StyleFields :
                        IsNone(Config_get(config, StyleKey(name, f))) => IsNone(o.style[f])
                /\ (\A f \in StyleFields : IsNone(Config_get(config, StyleKey(name, f))))
                        => o.style = ModuleStyle_default

\* Reached: options resolved with the paddings and the output unset and a
\* separator set.
C9_Witness ==
    /\ ReadOptionsReturned
    /\ IsOk(Unwrap(result))
    /\ IsNone(Config_get(config, ModuleKey("prompt", "padding_left")))
    /\ IsNone(Config_get(config, ModuleKey("prompt", "padding_right")))
    /\ IsNone(Config_get(config, ModuleKey("prompt", "output")))
    /\ Config_get(config, ModuleKey("prompt", "separator")) = Some(V_String(<<">">>))
    /\ Unwrap(result)[2].padding_left = <<" ">>
    /\ Unwrap(result)[2].separator = <<">">>

\* A key of the module holds a value of a kind its option does not accept.
HasWrongKind(c, name) ==
    \/ \E f \in StringFields :
            /\ IsSome(Config_get(c, ModuleKey(name, f)))
            /\ c[ModuleKey(name, f)][1] # "String"
    \/ \E f \in {"background", "foreground"} :
            /\ IsSome(Config_get(c, StyleKey(name, f)))
            /\ c[StyleKey(name, f)][1] \notin {"String", "Integer"}
    \/ /\ IsSome(Config_get(c, StyleKey(name, "text_properties")))
       /\ c[StyleKey(name, "text_properties")][1] \notin {"String", "Array"}

\* The text_properties array holds an element that is not a string.
HasWrongKindElement(c, name) ==
    /\ IsSome(Config_get(c, StyleKey(name, "text_properties")))
    /\ c[StyleKey(name, "text_properties")][1] = "Array"
    /\ \E e \in Range(c[StyleKey(name, "text_properties")][2]) : e[1] # "String"

\* C10: a value of the wrong kind for its key (a boolean or integer for a
\* padding, the separator or the output; a boolean or array for a colour;
\* a boolean or integer for the text properties) makes read_options return
\* an error, never options; a non-string element of the text_properties
\* array never yields options either.
C10_WrongKindFails ==
    ReadOptionsReturned =>
        /\ HasWrongKind(config, call.key) => IsErr(Unwrap(result))
        /\ HasWrongKindElement(config, call.key) => ~IsOk(Unwrap(result))

\* Reached: the only defect is a boolean padding_left, and resolution failed.
C10_Witness ==
    /\ ReadOptionsReturned
    /\ Config_get(config, ModuleKey("prompt", "padding_left")) = Some(V_Boolean(TRUE))
    /\ DOMAIN config = {ModuleKey("prompt", "padding_left")}
    /\ Unwrap(result) = Err("InvalidTypeInConfig")

---------------------------------------------------------------------------
(* Properties of the providers (SpecProviders)                             *)

ExitProviderReturned ==
    call.fn \in {"format_exit_code", "format_prompt"} /\ IsSome(result)

\* The content the provider formats: the decimal exit code, or "$".
ExitProviderContent ==
    IF call.fn = "format_exit_code" THEN to_string(exit_code) ELSE <<"$">>

\* The configuration without the keys of modules.<name>.style.
WithoutOwnStyle(c, name) ==
    [k \in DOMAIN c \ {StyleKey(name, f) : f \in StyleFields} |-> c[k]]

\* C7: format_exit_code and format_prompt render with style_success if and
\* only if the exit code is 0 and with style_error for every other exit
\* code; foreground, background and text properties all come from that
\* sub-style (the keys of modules.<name>.style change nothing), and the
\* returned next_bg is the sub-style's background.
C7_SubStyleSelected ==
    (ExitProviderReturned /\ IsOk(Unwrap(result))) =>
        LET r == Unwrap(result)[2]
            name == call.name
            success == read_style(ModuleKey(name, "style_success"), config)[2]
            error == read_style(ModuleKey(name, "style_error"), config)[2]
            base == read_options(name, WithoutOwnStyle(config, name))[2]
            Rendered(sub) ==
                Some(format_for_module(ExitProviderContent,
                                       [base EXCEPT !.style = sub],
                                       next_background, shell)[2])
        IN  /\ exit_code = 0 => r.next_bg = success.background /\ r.output = Rendered(success)
            /\ exit_code # 0 => r.next_bg = error.background /\ r.output = Rendered(error)

\* Reached: exit code 255 rendered red although modules.exit_code.style
\* sets a blue background, a foreground and text properties.
C7_Witness ==
    /\ ExitProviderReturned
    /\ call.fn = "format_exit_code"
    /\ exit_code = 255
    /\ Config_get(config, StyleKey("exit_code", "background")) = Some(V_String(Str_blue))
    /\ IsOk(Unwrap(result))
    /\ Unwrap(result)[2].next_bg = Some(<<"Red">>)

GenericReturned == call.fn = "format_generic" /\ IsSome(result)

OutputConfigured == IsSome(Config_get(config, ModuleKey(call.name, "output")))

\* Left padding, configured output and right padding, as the configuration
\* gives them.
PaddedOutput ==
    StringOrDefault(config, call.name, "padding_left", <<" ">>)
        \o config[ModuleKey(call.name, "output")][2]
        \o StringOrDefault(config, call.name, "padding_right", <<" ">>)

\* The render needs length-escape markers (some colour is involved).
NeedsMarkers(options, next_bg) ==
    IsSome(options.style.background) \/ IsSome(options.style.foreground)
        \/ IsSome(next_bg)

\* C8 as stated: with no configured output format_generic returns success
\* with no content and no next_bg; with a configured output it returns
\* content holding left padding, output and right padding.
C8_AsStated ==
    GenericReturned =>
        LET r == Unwrap(result)
        IN  /\ ~OutputConfigured => r = Ok(FormatResult_default)
            /\ OutputConfigured =>
                    /\ IsOk(r)
                    /\ IsSome(r[2].output)
                    /\ Contains(Unwrap(r[2].output), PaddedOutput)

\* C8 (amended): format_generic first resolves the options and returns
\* their error if a value is of the wrong kind.  Otherwise, with no
\* configured output it returns success with no content and no next_bg;
\* with a configured output it returns content holding left padding, output
\* and right padding (exactly that when the module has no colour, no
\* separator and no next background) and the style's background as next_bg,
\* unless a colour is involved and the shell is unsupported (a panic).
C8_GenericOutput ==
    GenericReturned =>
        LET r == Unwrap(result)
            o == read_options(call.name, config)
        IN  /\ ~IsOk(o) => r = o
            /\ (IsOk(o) /\ ~OutputConfigured) => r = Ok(FormatResult_default)
            /\ (IsOk(o) /\ OutputConfigured) =>
                    IF NeedsMarkers(o[2], next_background) /\ shell \notin SupportedShells
                    THEN IsPanic(r)
                    ELSE /\ IsOk(r)
                         /\ IsSome(r[2].output)
                         /\ Contains(Unwrap(r[2].output), PaddedOutput)
                         /\ r[2].next_bg = o[2].style.background
                         /\ (~NeedsMarkers(o[2], next_background) /\ o[2].separator = <<>>)
                                => Unwrap(r[2].output) = PaddedOutput

\* Reached: both cases of the amended claim. This one: no output configured,
\* other options set, and the default result returned.
C8_Witness ==
    /\ GenericReturned
    /\ ~OutputConfigured
    /\ Config_get(config, ModuleKey(call.name, "separator")) = Some(V_String(<<">">>))
    /\ Config_get(config, StyleKey(call.name, "background")) = Some(V_String(Str_blue))
    /\ Unwrap(result) = Ok(FormatResult_default)


---------------------------------------------------------------------------
(* Properties of format_for_module and format_module (SpecFormat)          *)

FormatReturned == call.fn = "format_for_module" /\ IsSome(result)

ModuleReturned == call.fn = "format_module" /\ IsSome(result)

\* The part occurs in the whole at index i.
OccursAt(whole, part, i) ==
    i >= 1 /\ i + Len(part) - 1 <= Len(whole)
        /\ SubSeq(whole, i, i + Len(part) - 1) = part

\* The index just after the escape sequence that starts at index i.
EscapeEnd(out, i) == (CHOOSE j \in i..Len(out) : out[j] = "m") + 1

\* Every escape sequence of the output stands between the two markers, and
\* the markers occur nowhere else.
EscapesBracketed(out, markers) ==
    /\ \A i \in 1..Len(out) :
          out[i] = "ESC" =>
              /\ OccursAt(out, markers[1], i - Len(markers[1]))
              /\ OccursAt(out, markers[2], EscapeEnd(out, i))
    /\ \A i \in 1..Len(out) :
          OccursAt(out, markers[1], i) =>
              i + Len(markers[1]) <= Len(out) /\ out[i + Len(markers[1])] = "ESC"

\* C5: in format_for_module's output for a supported shell the zero-width
\* markers are present exactly where an escape sequence is emitted: every
\* escape sequence (of the main content and of the separator) is bracketed
\* by the shell's markers, and markers bracket nothing but an escape
\* sequence, for every combination of foreground, background, text
\* attributes and next_background.
C5_MarkersIffEscapes ==
    (FormatReturned /\ call.shell \in SupportedShells) =>
        EscapesBracketed(Unwrap(result)[2], len_esc_for_shell(call.shell)[2])

\* The shell named by global.shell in the configuration.
ConfiguredShell == unwrap_or_default(get_str(config, <<"global", "shell">>))

\* format_module was given something to format.
ModuleVisible ==
    IsSome(get_str(config, ModuleKey(call.name, "output"))) \/ IsSome(call.output)

---------------------------------------------------------------------------
(* Properties of the chain renderer (Spec)                                 *)

Providers == {"format_exit_code", "format_prompt", "format_generic"}

\* The result of rendering the named segment in front of the background nb.
provider_result(name, nb) ==
    CASE provider_for(name) = "format_exit_code" ->
            format_exit_code(config, exit_code, nb, shell)
      [] provider_for(name) = "format_prompt" ->
            format_prompt(config, exit_code, nb, shell)
      [] OTHER -> format_generic(name, config, nb, shell)

\* A segment is visible if its provider has content for it: the exit code
\* and the prompt glyph always, any other segment if its output is set.
Visible(name) ==
    name \in {"exit_code", "prompt"}
        \/ IsSome(Config_get(config, ModuleKey(name, "output")))

\* The style table a segment is rendered with.
SelectedStyleKey(name) ==
    IF name \in {"exit_code", "prompt"}
    THEN ModuleKey(name, IF exit_code = 0 THEN "style_success" ELSE "style_error")
    ELSE ModuleKey(name, "style")

\* The background the configuration gives the segment, if any.
ResolvedBackground(name) ==
    try_color_from_config(SelectedStyleKey(name) \o <<"background">>, config)[2]

\* The text attributes the configuration gives the segment, if any.
ResolvedAttributes(name) ==
    try_text_props_from_config(SelectedStyleKey(name) \o <<"text_properties">>,
                               config)[2]

\* The positions of the visible segments displayed after position i.
LaterVisible(i) == {j \in (i + 1)..Len(segments) : Visible(segments[j])}

\* The background of the first visible segment displayed after position i.
NextVisibleBackground(i) ==
    IF LaterVisible(i) = {} THEN None
    ELSE ResolvedBackground(
             segments[CHOOSE j \in LaterVisible(i) : \A k \in LaterVisible(i) : j <= k])

\* The style with the foreground fg and the background bg, where present.
Swapped(attrs, fg, bg) ==
    LET base == IF IsSome(attrs) THEN Unwrap(attrs) ELSE Style_new
        on == IF IsSome(bg) THEN Style_on(base, Unwrap(bg)) ELSE base
    IN  IF IsSome(fg) THEN Style_fg(on, Unwrap(fg)) ELSE on

\* The separator of the named segment as the terminal must receive it when
\* the background nb follows: the separator text painted with the segment's
\* background as foreground on nb, the escape codes between the shell's markers.
PaintedSeparator(name, nb) ==
    LET style == Swapped(ResolvedAttributes(name), ResolvedBackground(name), nb)
        m == IF IsSome(ResolvedBackground(name)) \/ IsSome(nb)
             THEN len_esc_for_shell(shell)[2] ELSE <<(<<>>), (<<>>)>>
    IN  m[1] \o Style_prefix(style) \o m[2]
            \o string_option(ModuleKey(name, "separator"), config, <<>>)[2]
            \o m[1] \o Style_suffix(style) \o m[2]

EndsWith(whole, part) ==
    Len(whole) >= Len(part)
        /\ SubSeq(whole, Len(whole) - Len(part) + 1, Len(whole)) = part

\* The last step of the walk called a provider.
Stepped == call.fn \in Providers /\ IsSome(result)

\* The last step of the walk rendered a visible segment.
RenderedVisible ==
    Stepped /\ IsOk(Unwrap(result)) /\ IsSome(Unwrap(result)[2].output)

LastOutput == Unwrap(Unwrap(result)[2].output)

\* C1: an invisible segment leaves next_background unchanged.  At every
\* point of the walk next_background is the background of the first visible
\* segment displayed after the segments still to be rendered (never that of
\* an invisible one); and when segment i is visible, segment i+1 invisible
\* and segment i+2 visible, segment i is rendered in front of segment i+2's
\* background and its separator is painted on that background.
C1_InvisibleSkipped ==
    /\ next_background = NextVisibleBackground(pos)
    /\ (/\ RenderedVisible
        /\ call.pos + 2 <= Len(segments)
        /\ ~Visible(segments[call.pos + 1])
        /\ Visible(segments[call.pos + 2])) =>
            /\ call.next_bg = ResolvedBackground(segments[call.pos + 2])
            /\ EndsWith(LastOutput,
                        PaintedSeparator(call.name,
                                         ResolvedBackground(segments[call.pos + 2])))

\* Reached: "user" rendered in front of the invisible "empty" (whose own
\* background is white) and the exit code segment, whose background is set.
C1_Witness ==
    /\ RenderedVisible
    /\ call.name = "user"
    /\ call.pos + 2 <= Len(segments)
    /\ segments[call.pos + 1] = "empty"
    /\ segments[call.pos + 2] = "exit_code"
    /\ IsSome(call.next_bg)
    /\ ResolvedBackground("empty") = Some(<<"White">>)

\* C2: the last visible segment in display order is rendered with
\* next_background absent; its separator is painted with the segment's own
\* background as foreground and no background; and the absence is not an
\* error: the render fails only if it would also fail in front of a
\* background.
C2_LastVisibleFlat ==
    (Stepped /\ Visible(call.name) /\ LaterVisible(call.pos) = {}) =>
        /\ call.next_bg = None
        /\ IsOk(Unwrap(result)) =>
               /\ IsSome(Unwrap(result)[2].output)
               /\ EndsWith(LastOutput, PaintedSeparator(call.name, None))
               /\ ~Contains(PaintedSeparator(call.name, None), <<"4", "8", ";">>)
               /\ \A k \in 0..7 :
                      ~Contains(PaintedSeparator(call.name, None), <<"4", to_string(k)[1], "m">>)
        /\ ~IsOk(Unwrap(result)) =>
               ~IsOk(provider_result(call.name, Some(<<"Blue">>)))

\* Reached: "user", with a blue background, rendered as the last visible
\* segment although the invisible "empty" follows it in the list.
C2_Witness ==
    /\ RenderedVisible
    /\ call.name = "user"
    /\ call.pos < Len(segments)
    /\ LaterVisible(call.pos) = {}
    /\ ResolvedBackground("user") = Some(<<"Blue">>)

\* The outputs of the visible segments from position i on, in display
\* order, each rendered in front of the background of the next visible one.
RECURSIVE VisibleOutputs(_)
VisibleOutputs(i) ==
    IF i > Len(segments) THEN <<>>
    ELSE (IF Visible(segments[i])
          THEN <<Unwrap(provider_result(segments[i],
                                        NextVisibleBackground(i))[2].output)>>
          ELSE <<>>) \o VisibleOutputs(i + 1)

\* C3: at every point of the walk the accumulator holds the outputs of
\* exactly the visible segments rendered so far, in display order, and the
\* printed prompt is the outputs of the visible segments of the whole list
\* in display order; invisible segments contribute nothing.
C3_DisplayOrder ==
    /\ accumulator = VisibleOutputs(pos + 1)
    /\ status = "done" => result = Some(Concat(VisibleOutputs(1)))

\* Reached: a prompt printed for three segments, the middle one invisible
\* and the other two different.
C3_Witness ==
    /\ status = "done"
    /\ Len(segments) = 3
    /\ segments[1] = "user"
    /\ ~Visible(segments[2])
    /\ segments[3] = "exit_code"
    /\ Len(accumulator) = 2

\* C4: the separator of every rendered segment is painted with the swapped
\* style: its foreground is the segment's own background and its background
\* is next_background, the background of the next visible segment.
C4_SeparatorSwapped ==
    RenderedVisible =>
        /\ call.next_bg = NextVisibleBackground(call.pos)
        /\ EndsWith(LastOutput, PaintedSeparator(call.name, call.next_bg))

\* Reached: "user" (white on blue) rendered in front of a failed exit code
\* (red background).
C4_Witness ==
    /\ RenderedVisible
    /\ call.name = "user"
    /\ ResolvedBackground("user") = Some(<<"Blue">>)
    /\ call.next_bg = Some(<<"Red">>)
    /\ shell = "Zsh"
---------------------------------------------------------------------------
(* Properties of the parsers (SpecParsers)                                 *)

ParserReturned(fn) == call.fn = fn /\ IsSome(result)

\* The call parsed some letter-case variant of the i-th palette name.
ParsedPaletteName(fn, i) ==
    ParserReturned(fn) /\ call.arg \in CaseVariants(PaletteNames[i])

\* The index of a colour in the 256-colour palette, for the colours that
\* have one.
PaletteIndex(color) ==
    CASE color[1] = "Fixed" -> color[2]
      [] color[1] = "RGB" -> 0 - 1
      [] OTHER -> ColorIndex(color)

\* The fixed content string painted with a colour as its foreground.
Emitted(color) == Style_paint(Color_normal(color), Str_Hello)

NamedParsers == {"try_color_from_str", "string_to_colour"}

\* C11 as stated: each of the 16 names, in any letter case, parses to the
\* palette colour with its index, under either parser of named colours.
C11_AsStated ==
    \A fn \in NamedParsers : \A i \in 1..16 :
        ParsedPaletteName(fn, i) =>
            /\ IsOk(Unwrap(result))
            /\ PaletteIndex(Unwrap(result)[2]) = i - 1

\* C11: string_to_colour parses each of the 16 names, in any letter case, to
\* the indexed colour i - 1, which is emitted as ESC[38;5;<i-1>m.
\* try_color_from_str parses only the eight base names, to the named colour
\* emitted as ESC[3<i-1>m, and fails with NoSuchMatchInConfig on the eight
\* bright names.
C11_NamedColours ==
    \A i \in 1..16 :
        /\ ParsedPaletteName("string_to_colour", i) =>
              /\ Unwrap(result) = Ok(Color_Fixed(i - 1))
              /\ Emitted(Unwrap(result)[2]) =
                    <<"ESC", "[", "3", "8", ";", "5", ";">> \o to_string(i - 1)
                        \o <<"m">> \o Str_Hello \o <<"ESC", "[", "0", "m">>
        /\ ParsedPaletteName("try_color_from_str", i) =>
              IF i <= 8
              THEN /\ Unwrap(result) = Ok(<<NamedColors[i]>>)
                   /\ PaletteIndex(Unwrap(result)[2]) = i - 1
                   /\ Emitted(Unwrap(result)[2]) =
                         <<"ESC", "[", "3", Digits[i], "m">> \o Str_Hello
                             \o <<"ESC", "[", "0", "m">>
              ELSE Unwrap(result) = Err("NoSuchMatchInConfig")

C11_Witness ==
    /\ ParsedPaletteName("try_color_from_str", 11)
    /\ call.arg = to_uppercase(PaletteNames[11])
    /\ Unwrap(result) = Err("NoSuchMatchInConfig")

\* try_color_from_config returned for a key holding a string.
StringColour ==
    /\ ParserReturned("try_color_from_config")
    /\ IsSome(call.arg)
    /\ Unwrap(call.arg)[1] = "String"

\* The string of a StringColour call.
ColourString == Unwrap(call.arg)[2]

\* The first success among the three parsers in the order named colour,
\* integer, RGB triple; None when all three fail.
FirstParsed(s) ==
    IF IsOk(try_color_from_str(s)) THEN Some(try_color_from_str(s)[2])
    ELSE IF IsOk(try_fixed_from_str(s)) THEN Some(try_fixed_from_str(s)[2])
    ELSE IF IsOk(try_rgb_from_str(s)) THEN Some(try_rgb_from_str(s)[2])
    ELSE None

\* A string made only of digits, signs, commas, parentheses and spaces.
ColourLike(s) ==
    /\ s # <<>>
    /\ \A i \in 1..Len(s) : IsDigit(s[i]) \/ s[i] \in {"+", "-", ",", "(", ")", " "}

\* C12 as stated: when all three parsers fail, the error kind is InvalidForm
\* for a colour-like string and NoSuchMatch for an unrecognized one.
C12_AsStated ==
    (StringColour /\ IsNone(FirstParsed(ColourString))) =>
        IF ColourLike(ColourString)
        THEN Unwrap(result) = Err("InvalidForm")
        ELSE Unwrap(result) \in {Err("NoSuchMatch"), Err("NoSuchMatchInConfig")}

\* C12: for a string value try_color_from_config returns the first success
\* among named colour, integer 0..255 and RGB triple, in this order; when
\* all three fail the error kind is ConfigParseFailure whatever the string
\* ("teal", "256" and "(256, 0, 0)" alike).
C12_ParseOrder ==
    StringColour =>
        /\ IF IsSome(FirstParsed(ColourString))
           THEN Unwrap(result) = Ok(FirstParsed(ColourString))
           ELSE Unwrap(result) = Err("ConfigParseFailure")
        /\ ColourString = Str_blue => Unwrap(result) = Ok(Some(<<"Blue">>))
        /\ ColourString = Str_50 => Unwrap(result) = Ok(Some(Color_Fixed(50)))
        /\ ColourString = tuple_string(0, U8_MAX, 7) =>
              Unwrap(result) = Ok(Some(Color_RGB(0, U8_MAX, 7)))
        /\ ColourString \in {Str_teal, to_string(U8_MAX + 1), tuple_string(U8_MAX + 1, 0, 0)} =>
              Unwrap(result) = Err("ConfigParseFailure")

C12_Witness ==
    /\ StringColour
    /\ ColourString = tuple_string(U8_MAX + 1, 0, 0)
    /\ Unwrap(result) = Err("ConfigParseFailure")

\* try_color_from_config returned for a key holding an integer.
IntegerColour ==
    /\ ParserReturned("try_color_from_config")
    /\ IsSome(call.arg)
    /\ Unwrap(call.arg)[1] = "Integer"

InRange(n) == 0 <= n /\ n <= U8_MAX

\* A string of decimal digits only.
IsNumeral(s) == s # <<>> /\ \A i \in 1..Len(s) : IsDigit(s[i])

\* Every number of a colour fits in eight bits.
ColourInRange(color) ==
    CASE color[1] = "Fixed" -> InRange(color[2])
      [] color[1] = "RGB" -> InRange(color[2]) /\ InRange(color[3]) /\ InRange(color[4])
      [] OTHER -> TRUE

\* The colour of a successful result of any of the colour parsers, if any.
ParsedColour ==
    IF ~IsSome(result) \/ ~IsOk(Unwrap(result)) THEN None
    ELSE IF call.fn = "try_color_from_config" THEN Unwrap(result)[2]
    ELSE IF call.fn \in {"try_color_from_str", "try_fixed_from_str",
                         "try_rgb_from_str", "string_to_colour"}
         THEN Some(Unwrap(result)[2])
    ELSE None

StrippedFields(s) ==
    split_comma(SelectSeq(s, LAMBDA ch : ch \notin {"(", ")", " "}))

\* The digits of a field, without an optional leading plus sign.
FieldDigits(f) == IF f # <<>> /\ f[1] = "+" THEN Tail(f) ELSE f

\* A field that is a decimal integer in 0..255.
IsU8Field(f) == IsNumeral(FieldDigits(f)) /\ InRange(DecimalValue(FieldDigits(f)))

FieldValue(f) == DecimalValue(FieldDigits(f))

AllU8Fields(fs) == \A i \in 1..Len(fs) : IsU8Field(fs[i])

ValidPropsParsed ==
    ParserReturned("try_text_props_from_vec") /\ call.arg \in PropLists

Reverse(l) == [i \in 1..Len(l) |-> l[Len(l) + 1 - i]]

\* The names of a set, each once, in one fixed order.
Canonical(names) == SelectSeq(TextPropOrder, LAMBDA n : n \in names)

\* C15: the attributes resolved from a list of valid names depend only on
\* the set of names: the list, its reversal, the list doubled and the list
\* of its distinct names in a fixed order all resolve to the same style,
\* which has one attribute per distinct name.
C15_SetOfNames ==
    ValidPropsParsed =>
        /\ IsOk(Unwrap(result))
        /\ Unwrap(result) = try_text_props_from_vec(Canonical(Range(call.arg)))
        /\ Unwrap(result) = try_text_props_from_vec(Reverse(call.arg))
        /\ Unwrap(result) = try_text_props_from_vec(call.arg \o call.arg)
        /\ Cardinality(Unwrap(result)[2].attrs) = Cardinality(Range(call.arg))
        /\ Unwrap(result)[2].foreground = None
        /\ Unwrap(result)[2].background = None

C15_Witness ==
    /\ ValidPropsParsed
    /\ call.arg = <<Str_bold, Str_italic, Str_bold>>
    /\ Unwrap(result) = Ok(Style_with(Style_with(Style_new, "italic"), "bold"))

\* A string that is one of the eight text-property names in some letter case.
IsKnownProp(s) == to_lowercase(s) \in TextPropNames

\* The style with exactly the attribute a known name stands for.
PropStyle(s) == Style_with(Style_new, Unwrap(text_prop_name(to_lowercase(s))))

\* A configured value that is a string.
StringValue(v) == IsSome(v) /\ Unwrap(v)[1] = "String"

\* A configured value that is an array of strings.
StringArrayValue(v) ==
    /\ IsSome(v)
    /\ Unwrap(v)[1] = "Array"
    /\ \A i \in 1..Len(Unwrap(v)[2]) : Unwrap(v)[2][i][1] = "String"

\* The strings of an array of strings.
ArrayStrings(v) == [i \in 1..Len(Unwrap(v)[2]) |-> Unwrap(v)[2][i][2]]

\* Each string of a list in lower case.
to_lowercase_all(l) == [i \in 1..Len(l) |-> to_lowercase(l[i])]

\* The legacy names for the style without attributes.
LegacyPlainNames == {<<>>, Str_default, Str_normal}

\* C16 as stated: the empty string, like an absent value, yields the
\* zero-attribute style and never an error; an unknown string fails with
\* NoSuchMatch.
C16_AsStated ==
    /\ (ParserReturned("try_text_prop_from_str") /\ call.arg \in {None, Some(<<>>)}) =>
          Unwrap(result) = Ok(Style_new)
    /\ (ParserReturned("try_text_props_from_config")
            /\ call.arg \in {None, Some(V_String(<<>>))}) =>
          /\ IsOk(Unwrap(result))
          /\ Unwrap(result)[2] \in {None, Some(Style_new)}
    /\ (ParserReturned("string_to_style") /\ call.arg = <<>>) =>
          Unwrap(result) = Ok(Style_new)
    /\ (ParserReturned("string_to_style") /\ call.arg # <<>>
            /\ ~IsKnownProp(call.arg)) =>
          Unwrap(result) \in {Err("NoSuchMatch"), Err("NoSuchMatchInConfig")}

\* C16: try_text_prop_from_str yields the zero-attribute style for an absent
\* value; try_text_props_from_config yields no style for an absent key and
\* the zero-attribute style for an empty array.  In both, a string that is
\* none of the eight names in any letter case, the empty string included,
\* fails with NoSuchMatchInConfig, alone or as an element of an array of
\* strings.  The older string_to_style yields the zero-attribute style for
\* "", "default" and "normal" and panics on any other unknown string.
C16_AbsentAndUnknown ==
    /\ ParserReturned("try_text_prop_from_str") =>
          Unwrap(result) =
              IF IsNone(call.arg) THEN Ok(Style_new)
              ELSE IF IsKnownProp(Unwrap(call.arg)) THEN Ok(PropStyle(Unwrap(call.arg)))
              ELSE Err("NoSuchMatchInConfig")
    /\ (ParserReturned("try_text_props_from_config") /\ IsNone(call.arg)) =>
          Unwrap(result) = Ok(None)
    /\ (ParserReturned("try_text_props_from_config") /\ StringValue(call.arg)) =>
          Unwrap(result) =
              IF IsKnownProp(Unwrap(call.arg)[2])
              THEN Ok(Some(PropStyle(Unwrap(call.arg)[2])))
              ELSE Err("NoSuchMatchInConfig")
    /\ (ParserReturned("try_text_props_from_config") /\ StringArrayValue(call.arg)) =>
          IF \A i \in 1..Len(ArrayStrings(call.arg)) : IsKnownProp(ArrayStrings(call.arg)[i])
          THEN /\ IsOk(Unwrap(result))
               /\ Cardinality(Unwrap(Unwrap(result)[2]).attrs) =
                      Cardinality(Range(to_lowercase_all(ArrayStrings(call.arg))))
          ELSE Unwrap(result) = Err("NoSuchMatchInConfig")
    /\ ParserReturned("try_text_props_from_vec") =>
          IF \A i \in 1..Len(call.arg) : IsKnownProp(call.arg[i])
          THEN IsOk(Unwrap(result))
          ELSE Unwrap(result) = Err("NoSuchMatchInConfig")
    /\ ParserReturned("string_to_style") =>
          Unwrap(result) =
              IF to_lowercase(call.arg) \in LegacyPlainNames THEN Ok(Style_new)
              ELSE IF IsKnownProp(call.arg) THEN Ok(PropStyle(call.arg))
              ELSE Panic

C16_Witness ==
    /\ ParserReturned("try_text_prop_from_str")
    /\ call.arg = Some(<<>>)
    /\ Unwrap(result) = Err("NoSuchMatchInConfig")

---------------------------------------------------------------------------
(* Properties of the providers that read the environment (SpecEnvironment) *)

EnvironmentReturned(fn) == call.fn = fn /\ IsSome(result)

\* The provider returned a result with content; Rendered is that content.
CwdRendered ==
    /\ EnvironmentReturned("format_cwd")
    /\ IsOk(Unwrap(result))
    /\ IsSome(Unwrap(result)[2].output)

DirectoryRendered ==
    /\ EnvironmentReturned("format_module_directory")
    /\ IsOk(Unwrap(result))
    /\ IsSome(Unwrap(result)[2][2])

Rendered ==
    IF call.fn \in {"format_cwd", "format_git"}
    THEN Unwrap(Unwrap(result)[2].output)
    ELSE Unwrap(Unwrap(result)[2][2])

\* The path each provider starts from, after a leading $HOME became "~".
CwdPath == home_shortened(cwd_from_environment(environment), environment.HOME)

DirectoryPath == home_shortened(environment.current_dir[2], environment.HOME)

\* max_depth is 4: for format_cwd unset or the integer 4, for
\* format_module_directory the merged value 4 (as an integer or as text).
CwdMaxDepthIs(n) ==
    \/ Config_get(config, ModuleKey("cwd", "max_depth")) = Some(V_Integer(n))
    \/ /\ n = DefaultMaxDepth
       /\ Config_get(config, ModuleKey("cwd", "max_depth")) = None

DirectoryMaxDepthIs(n) ==
    Config_get(config, ModuleKey("directory", "max_depth"))
        \in {Some(V_Integer(n)), Some(V_String(to_string(n)))}

TruncateMiddle ==
    Config_get(config, ModuleKey("directory", "truncate_middle")) = Some(V_Boolean(TRUE))

\* The marker followed by the last n components of a path.
LeadingKept(p, n) ==
    <<Ellipsis>> \o SubSeq(p.comps, Len(p.comps) - n + 1, Len(p.comps))

\* The first and the last n components around the marker.
MiddleKept(p, n) ==
    SubSeq(p.comps, 1, n) \o <<Ellipsis>>
        \o SubSeq(p.comps, Len(p.comps) - n + 1, Len(p.comps))

RealComponents(components) ==
    Cardinality({i \in 1..Len(components) : components[i] # Ellipsis})

Markers(components) ==
    Cardinality({i \in 1..Len(components) : components[i] = Ellipsis})

\* The text of a path between the default paddings, one space on each side.
Padded(components) ==
    <<" ">> \o Path_display(PathBuf_from_iter(components)) \o <<" ">>

\* C17: a path of depth 6 with max_depth 4 is shown as four of its
\* components and one marker: format_cwd and the leading policy of
\* format_module_directory show the marker and the last four components, the
\* middle policy shows the first two, the marker and the last two.
C17_DepthSixMaxFour ==
    /\ (CwdRendered /\ components_count(CwdPath) = 6 /\ CwdMaxDepthIs(4)) =>
          /\ Contains(Rendered, Padded(LeadingKept(CwdPath, 4)))
          /\ RealComponents(LeadingKept(CwdPath, 4)) = 4
          /\ Markers(LeadingKept(CwdPath, 4)) = 1
    /\ (DirectoryRendered /\ components_count(DirectoryPath) = 6
            /\ DirectoryMaxDepthIs(4) /\ ~TruncateMiddle) =>
          /\ Contains(Rendered, Padded(LeadingKept(DirectoryPath, 4)))
          /\ RealComponents(LeadingKept(DirectoryPath, 4)) = 4
          /\ Markers(LeadingKept(DirectoryPath, 4)) = 1
    /\ (DirectoryRendered /\ components_count(DirectoryPath) = 6
            /\ DirectoryMaxDepthIs(4) /\ TruncateMiddle) =>
          /\ Contains(Rendered, Padded(MiddleKept(DirectoryPath, 2)))
          /\ RealComponents(MiddleKept(DirectoryPath, 2)) = 4
          /\ Markers(MiddleKept(DirectoryPath, 2)) = 1

C17_Witness ==
    /\ DirectoryRendered
    /\ environment.current_dir = Ok(UnderHome(5))
    /\ environment.HOME = Some(HomePath)
    /\ DirectoryMaxDepthIs(4)
    /\ TruncateMiddle
    /\ Contains(Rendered,
                <<" ", "~", "/", "a", "/", ".", ".", ".", "/", "d", "/", "e", " ">>)

\* The sample configuration of format_cwd has no value of a wrong kind:
\* padding_left is unset or a string, max_depth unset or an integer >= 0.
CwdConfigValid ==
    /\ Config_get(config, ModuleKey("cwd", "padding_left")) # Some(V_Boolean(TRUE))
    /\ \/ Config_get(config, ModuleKey("cwd", "max_depth")) = None
       \/ \E n \in 0..(MaxDirs + 1) : CwdMaxDepthIs(n)

\* A background is configured for the segment.
HasBackground(name) ==
    IsSome(Config_get(config, ModuleKey(name, "style") \o <<"background">>))

\* Neither PWD nor the current directory can be read.
NoDirectory == IsNone(environment.PWD) /\ ~IsOk(environment.current_dir)

\* C18: the directory provider never fails: it always returns a result with
\* content, and an inaccessible current directory falls back to the empty
\* path.  (Read for valid options and a supported shell.)
C18_NeverFails ==
    /\ (EnvironmentReturned("format_cwd") /\ CwdConfigValid
            /\ ~(shell = "Fish" /\ HasBackground("cwd"))) =>
          /\ CwdRendered
          /\ (NoDirectory /\ ~HasBackground("cwd")) => Rendered = <<" ", " ">>
    /\ EnvironmentReturned("format_module_directory") => DirectoryRendered

\* The failing input: HOME is set, the current directory cannot be read,
\* and format_module_directory panics.
C18_Witness ==
    /\ EnvironmentReturned("format_module_directory")
    /\ IsSome(environment.HOME)
    /\ ~IsOk(environment.current_dir)
    /\ Unwrap(result) = Panic

\* Every outcome of the two directory providers: format_cwd returns a result
\* with content for every environment, with the empty path when neither PWD
\* nor the current directory can be read, provided the configuration is
\* valid and the shell is supported; an option of the wrong kind, or a
\* max_depth that is negative or not an integer, is returned as
\* InvalidTypeInConfig, and a background with an unsupported shell panics.
\* format_module_directory returns content when HOME is set and the current
\* directory can be read, and panics otherwise.
DirectoryOutcomes ==
    /\ EnvironmentReturned("format_cwd") =>
          IF ~CwdConfigValid THEN Unwrap(result) = Err("InvalidTypeInConfig")
          ELSE IF shell = "Fish" /\ HasBackground("cwd") THEN Unwrap(result) = Panic
          ELSE /\ CwdRendered
               /\ NoDirectory =>
                     /\ Contains(Rendered, <<" ", " ">>)
                     /\ ~Contains(Rendered, <<"/">>)
                     /\ ~Contains(Rendered, <<".">>)
                     /\ ~Contains(Rendered, Tilde)
               /\ (NoDirectory /\ ~HasBackground("cwd")) => Rendered = <<" ", " ">>
    /\ EnvironmentReturned("format_module_directory") =>
          IF IsNone(environment.HOME) \/ ~IsOk(environment.current_dir)
          THEN Unwrap(result) = Panic
          ELSE DirectoryRendered

\* No repository encloses the current directory, or its HEAD is unborn.
NoRepositoryOrHead ==
    \/ ~IsOk(environment.repository)
    \/ ~IsOk(environment.repository[2].head)

GitConfigValid ==
    Config_get(config, ModuleKey("git", "padding_left")) # Some(V_Boolean(TRUE))

\* C19 as stated: without a repository or without a HEAD the git segment
\* returns success with an entirely absent result.
C19_AsStated ==
    (EnvironmentReturned("format_git") /\ NoRepositoryOrHead) =>
        Unwrap(result) = Ok(FormatResult_default)

\* C19: without an enclosing repository, or with an unborn HEAD, format_git
\* returns success with neither content nor next_bg, for every shell and
\* style, provided the options of the segment are valid; an option of the
\* wrong kind is returned as an error before the repository is looked for.
\* format_module_git returns neither name nor content in the same cases.
C19_NoRepository ==
    /\ (EnvironmentReturned("format_git") /\ NoRepositoryOrHead) =>
          Unwrap(result) =
              IF GitConfigValid THEN Ok([output |-> None, next_bg |-> None])
              ELSE Err("InvalidTypeInConfig")
    /\ (EnvironmentReturned("format_module_git") /\ IsOk(environment.current_dir)
            /\ NoRepositoryOrHead) =>
          Unwrap(result) = Ok(<<None, None>>)

C19_Witness ==
    /\ EnvironmentReturned("format_git")
    /\ IsOk(environment.current_dir)
    /\ IsOk(environment.repository)
    /\ ~IsOk(environment.repository[2].head)
    /\ shell = "Fish"
    /\ HasBackground("git")
    /\ Unwrap(result) = Ok([output |-> None, next_bg |-> None])

\* The current directory is inside a repository that has a HEAD.
RepositoryWithHead ==
    /\ IsOk(environment.current_dir)
    /\ IsOk(environment.repository)
    /\ IsOk(environment.repository[2].head)

Repo == environment.repository[2]

\* The queries behind each fragment all succeeded.
DiffAvailable == IsOk(Repo.diff) /\ IsOk(Repo.stats)

UpstreamAvailable ==
    /\ IsOk(Repo.upstream)
    /\ IsSome(Repo.local_target)
    /\ IsSome(Repo.upstream_target)
    /\ IsOk(Repo.ahead_behind)

\* The text format_git shows: the branch name, " +" if files have changed,
\* and the counts of commits ahead and behind that are not zero.
ExpectedGitText ==
    (IF IsSome(Repo.shorthand) THEN Unwrap(Repo.shorthand) ELSE <<>>)
    \o (IF DiffAvailable /\ Repo.stats[2].files_changed > 0 THEN <<" ", "+">> ELSE <<>>)
    \o (IF UpstreamAvailable /\ Repo.ahead_behind[2][1] > 0
        THEN <<" ", "U+21E1">> \o to_string(Repo.ahead_behind[2][1]) ELSE <<>>)
    \o (IF UpstreamAvailable /\ Repo.ahead_behind[2][2] > 0
        THEN <<" ", "U+21E3">> \o to_string(Repo.ahead_behind[2][2]) ELSE <<>>)

GitRendered ==
    /\ EnvironmentReturned("format_git")
    /\ IsOk(Unwrap(result))
    /\ IsSome(Unwrap(result)[2].output)

LegacyGitRendered ==
    /\ EnvironmentReturned("format_module_git")
    /\ IsOk(Unwrap(result))
    /\ IsSome(Unwrap(result)[2][2])

\* A flag of the older git module, after the defaults are merged.
GitFlag(key) == Config_get(config, ModuleKey("git", key)) = Some(V_Boolean(TRUE))

\* The unwrap() calls of format_module_git that fail for this repository.
LegacyGitPanics ==
    \/ IsNone(Repo.shorthand)
    \/ GitFlag("show_changed") /\ ~DiffAvailable
    \/ /\ GitFlag("show_unpushed")
       /\ IsOk(Repo.upstream)
       /\ (IsNone(Repo.local_target) \/ IsNone(Repo.upstream_target))

\* C20: with a repository and a HEAD the git segment returns success with
\* content that starts with the branch name, whichever repository query
\* fails.  (Read for valid options and a supported shell.)
C20_QueryFailuresDegrade ==
    /\ (EnvironmentReturned("format_git") /\ RepositoryWithHead /\ GitConfigValid
            /\ ~(shell = "Fish" /\ HasBackground("git"))) =>
          /\ GitRendered
          /\ IsSome(Repo.shorthand)
          /\ Contains(Rendered, <<" ">> \o Unwrap(Repo.shorthand))
    /\ (EnvironmentReturned("format_module_git") /\ RepositoryWithHead) =>
          /\ LegacyGitRendered
          /\ IsSome(Repo.shorthand)
          /\ Contains(Rendered, <<" ">> \o Unwrap(Repo.shorthand))

\* The failing input: the HEAD is named, show_changed is set, the diff
\* cannot be computed, and format_module_git panics.
C20_Witness ==
    /\ EnvironmentReturned("format_module_git")
    /\ RepositoryWithHead
    /\ IsSome(Repo.shorthand)
    /\ GitFlag("show_changed")
    /\ ~IsOk(Repo.diff)
    /\ Unwrap(result) = Panic

\* Every outcome of the two git providers in a repository with a HEAD.  With
\* valid options format_git never returns an error because of the
\* repository: a query that fails only leaves its fragment out.  The content
\* is the padded text of the fragments that are available, which starts with
\* the branch name when the HEAD has a name; with no fragment at all the
\* result is absent.  It panics only for an unsupported shell with a
\* background.  format_module_git panics when the HEAD has no name, when the
\* diff or its statistics fail while show_changed is set, and when a target
\* is missing while show_unpushed is set; otherwise its content holds the
\* branch name.
GitOutcomes ==
    /\ (EnvironmentReturned("format_git") /\ RepositoryWithHead /\ GitConfigValid) =>
          IF ExpectedGitText = <<>> THEN Unwrap(result) = Ok(FormatResult_default)
          ELSE IF shell = "Fish" /\ HasBackground("git") THEN Unwrap(result) = Panic
          ELSE /\ GitRendered
               /\ Contains(Rendered, <<" ">> \o ExpectedGitText \o <<" ">>)
               /\ ~HasBackground("git") =>
                     Rendered = <<" ">> \o ExpectedGitText \o <<" ">>
               /\ ~DiffAvailable => ~Contains(Rendered, <<"+">>)
               /\ ~UpstreamAvailable =>
                     /\ ~Contains(Rendered, <<"U+21E1">>)
                     /\ ~Contains(Rendered, <<"U+21E3">>)
    /\ (EnvironmentReturned("format_module_git") /\ RepositoryWithHead) =>
          IF LegacyGitPanics THEN Unwrap(result) = Panic
          ELSE /\ LegacyGitRendered
               /\ Contains(Rendered, <<" ">> \o Unwrap(Repo.shorthand))

\* A flag of the git segment that the configuration sets to false.
GitFlagDisabled(key) ==
    Config_get(config, ModuleKey("git", key)) = Some(V_Boolean(FALSE))

GitReturnedContent == GitRendered \/ LegacyGitRendered

ChangeIndicatorShown ==
    Contains(Rendered, <<" ", "+">>) \/ Contains(Rendered, <<" ", "(">>)

CountsShown ==
    Contains(Rendered, <<" ", "U+21E1">>) \/ Contains(Rendered, <<" ", "U+21E3">>)

\* C21: the change indicator is appended only if it is enabled and the
\* working tree differs from the index, and the ahead and behind counts only
\* if they are enabled, an upstream is configured and the count is not zero;
\* with the option disabled the fragment is never appended.
C21_FragmentsEnabled ==
    (GitReturnedContent /\ RepositoryWithHead) =>
        /\ ChangeIndicatorShown =>
              /\ ~GitFlagDisabled("show_changed")
              /\ DiffAvailable
              /\ Repo.stats[2].files_changed > 0
        /\ CountsShown =>
              /\ ~GitFlagDisabled("show_unpushed")
              /\ UpstreamAvailable
        /\ Contains(Rendered, <<" ", "U+21E1">>) => Repo.ahead_behind[2][1] > 0
        /\ Contains(Rendered, <<" ", "U+21E3">>) => Repo.ahead_behind[2][2] > 0

\* The failing input: show_changed and show_unpushed are false, files have
\* changed and commits are ahead, and format_git shows both fragments.
C21_Witness ==
    /\ GitRendered
    /\ RepositoryWithHead
    /\ shell = "Bash"
    /\ GitFlagDisabled("show_changed")
    /\ GitFlagDisabled("show_unpushed")
    /\ Contains(Rendered, Str_master \o <<" ", "+", " ", "U+21E1", "2">>)

\* The fragments of the older format_module_git follow its three flags.
LegacyFragmentsEnabled ==
    (LegacyGitRendered /\ RepositoryWithHead) =>
        /\ ChangeIndicatorShown <=>
              (GitFlag("show_changed") /\ Repo.stats[2].files_changed > 0)
        /\ Contains(Rendered, <<" ", "(">>) =>  GitFlag("show_diff_stats")
        /\ Contains(Rendered, <<" ", "U+21E1">>) <=>
              (GitFlag("show_unpushed") /\ UpstreamAvailable
                  /\ Repo.ahead_behind[2][1] > 0)
        /\ Contains(Rendered, <<" ", "U+21E3">>) <=>
              (GitFlag("show_unpushed") /\ UpstreamAvailable
                  /\ Repo.ahead_behind[2][2] > 0)


\* The rendered text shows exactly these components between the paddings,
\* with or without a closing separator.
ShownAs(components) ==
    \E slash \in BOOLEAN :
        Contains(Rendered,
                 <<" ">> \o Path_display([comps |-> components, slash |-> slash])
                     \o <<" ">>)

\* The first `leading` and the last `trailing` components around the marker.
SplitKept(p, leading, trailing) ==
    SubSeq(p.comps, 1, leading) \o <<Ellipsis>>
        \o SubSeq(p.comps, Len(p.comps) - trailing + 1, Len(p.comps))

Untruncated(p) == ShownAs(p.comps) /\ ~Contains(Rendered, Ellipsis)

\* A path of depth d under max_depth m and the leading policy: unchanged if
\* d <= m, else the marker and the last m components.
LeadingTruncation(p, m) ==
    IF components_count(p) <= m THEN Untruncated(p)
    ELSE /\ ShownAs(LeadingKept(p, m))
         /\ RealComponents(LeadingKept(p, m)) = m
         /\ Markers(LeadingKept(p, m)) = 1

\* The same under the middle policy: unchanged if d <= m, else m components
\* in all, some from the front and the others from the end, and one marker.
MiddleTruncation(p, m) ==
    IF components_count(p) <= m THEN Untruncated(p)
    ELSE \E leading \in 0..m :
            /\ ShownAs(SplitKept(p, leading, m - leading))
            /\ RealComponents(SplitKept(p, leading, m - leading)) = m
            /\ Markers(SplitKept(p, leading, m - leading)) = 1

\* The leading policy of both providers, for every depth and max_depth.
LeadingTruncationHolds ==
    \A m \in 0..(MaxDirs + 1) :
        /\ (CwdRendered /\ CwdMaxDepthIs(m)) => LeadingTruncation(CwdPath, m)
        /\ (DirectoryRendered /\ DirectoryMaxDepthIs(m) /\ ~TruncateMiddle) =>
              LeadingTruncation(DirectoryPath, m)

\* C28: for every depth d and every max_depth m >= 0 a path with d <= m is
\* displayed unchanged and without a marker, and a path with d > m is
\* displayed with exactly m of its components and exactly one marker, under
\* the leading policy (format_cwd, format_module_directory) and under the
\* middle policy (format_module_directory with truncate_middle) alike.
C28_ExactlyMaxDepth ==
    /\ LeadingTruncationHolds
    /\ \A m \in 0..(MaxDirs + 1) :
          (DirectoryRendered /\ DirectoryMaxDepthIs(m) /\ TruncateMiddle) =>
              MiddleTruncation(DirectoryPath, m)

\* ~/a/b/c/d has depth 5; with max_depth 3 and the middle policy one
\* component is kept on each side of the marker.
C28_Witness ==
    /\ DirectoryRendered
    /\ environment.current_dir = Ok(UnderHome(4))
    /\ environment.HOME = Some(HomePath)
    /\ DirectoryMaxDepthIs(3)
    /\ TruncateMiddle
    /\ Contains(Rendered, <<" ", "~", "/", ".", ".", ".", "/", "d", " ">>)

\* What the middle policy displays: max_depth / 2 components on each side
\* of the marker, which is max_depth components only if max_depth is even.
MiddleTruncationHalves ==
    \A m \in 0..(MaxDirs + 1) :
        (DirectoryRendered /\ DirectoryMaxDepthIs(m) /\ TruncateMiddle) =>
            IF components_count(DirectoryPath) <= m THEN Untruncated(DirectoryPath)
            ELSE /\ ShownAs(SplitKept(DirectoryPath, m \div 2, m \div 2))
                 /\ RealComponents(SplitKept(DirectoryPath, m \div 2, m \div 2))
                        = 2 * (m \div 2)

---------------------------------------------------------------------------
(* Properties of the output override and of the style lookup (SpecFormat,  *)
(* SpecOptions)                                                            *)

\* A configuration without one key.
Config_without(c, key) == [k \in DOMAIN c \ {key} |-> c[k]]

\* The override of the call: options.output, or modules.<name>.output.
OverrideSet ==
    \/ FormatReturned /\ IsSome(call.options.output)
    \/ ModuleReturned /\ IsSome(get_str(config, ModuleKey(call.name, "output")))

\* C22: with an output override the rendered content is the override, for
\* every computed content, and without it the computed content; padding,
\* style and separator are the same in both cases: the result equals the one
\* for the override passed as computed content with no override set.
C22_OutputOverride ==
    /\ (FormatReturned /\ IsSome(call.options.output)) =>
          /\ Unwrap(result) =
                 format_for_module(Unwrap(call.options.output),
                                   [call.options EXCEPT !.output = None],
                                   call.next_bg, call.shell)
          /\ IsOk(Unwrap(result)) =>
                /\ Contains(Unwrap(result)[2],
                            call.options.padding_left \o Unwrap(call.options.output)
                                \o call.options.padding_right)
                /\ ~Contains(Unwrap(result)[2], Str_Hello)
    /\ (FormatReturned /\ IsNone(call.options.output) /\ IsOk(Unwrap(result))) =>
          /\ Contains(Unwrap(result)[2],
                      call.options.padding_left \o call.s \o call.options.padding_right)
          /\ ~Contains(Unwrap(result)[2], Str_modified)
    /\ (ModuleReturned /\ IsSome(get_str(config, ModuleKey(call.name, "output")))) =>
          /\ Unwrap(result) =
                 format_module(Config_without(config, ModuleKey(call.name, "output")),
                               call.name,
                               get_str(config, ModuleKey(call.name, "output")),
                               call.last)
          /\ IsOk(Unwrap(result)) =>
                /\ Contains(Unwrap(Unwrap(result)[2][2]), <<" ">> \o Str_modified \o <<" ">>)
                /\ ~Contains(Unwrap(Unwrap(result)[2][2]), Str_Hello)
    /\ (ModuleReturned /\ IsNone(get_str(config, ModuleKey(call.name, "output")))
            /\ IsSome(call.output) /\ IsOk(Unwrap(result))) =>
          /\ Contains(Unwrap(Unwrap(result)[2][2]), <<" ">> \o Unwrap(call.output) \o <<" ">>)
          /\ ~Contains(Unwrap(Unwrap(result)[2][2]), Str_modified)

\* Reached: "Hello" was computed, the override is "modified", and the
\* output holds the override between the paddings and no "Hello".
C22_Witness ==
    /\ FormatReturned
    /\ call.s = Str_Hello
    /\ call.options.output = Some(Str_modified)
    /\ call.options.padding_left = <<" ">>
    /\ IsOk(Unwrap(result))
    /\ Contains(Unwrap(result)[2], <<" ">> \o Str_modified \o <<" ">>)
    /\ ~Contains(Unwrap(result)[2], Str_Hello)

---------------------------------------------------------------------------
(* Properties of the style lookup (SpecLookup)                             *)

GenericLookupReturned == call.fn = "format_generic" /\ IsSome(result)

ModuleLookupReturned == call.fn = "format_module" /\ IsSome(result)

\* The colour each sample name stands for in modules/mod.rs.
SampleColor(v) ==
    CASE v = V_String(Str_white) -> <<"White">>
      [] v = V_String(Str_cyan) -> <<"Cyan">>
      [] v = V_String(Str_red) -> <<"Red">>
      [] v = V_String(Str_green) -> <<"Green">>

SampleAttrs(v) ==
    CASE v = V_String(Str_bold) -> Style_with(Style_new, "bold")
      [] v = V_String(Str_italic) -> Style_with(Style_new, "italic")

\* The value under the segment's key, else the one under the global key.
LocalThenGlobal(c, local, global) ==
    IF IsSome(Config_get(c, local)) THEN Config_get(c, local)
    ELSE Config_get(c, global)

\* The style of modules.user with every field taken from the style table
\* alone (global = FALSE) or from the table and then from global.*.
GenericStyle(global) ==
    LET field(name, global_name) ==
            IF global
            THEN LocalThenGlobal(config, ModuleKey("user", "style") \o <<name>>,
                                 <<"global", global_name>>)
            ELSE Config_get(config, ModuleKey("user", "style") \o <<name>>)
        bg == field("background", "background")
        fg == field("foreground", "foreground")
        tp == field("text_properties", "style")
    IN  [background |-> IF IsSome(bg) THEN Some(SampleColor(Unwrap(bg))) ELSE None,
         foreground |-> IF IsSome(fg) THEN Some(SampleColor(Unwrap(fg))) ELSE None,
         text_properties |-> IF IsSome(tp) THEN Some(SampleAttrs(Unwrap(tp))) ELSE None]

\* The result of rendering "Hello" with a style and the default options.
GenericRenderedWith(style) ==
    formatted_result(Str_Hello, [ModuleOptions_default EXCEPT !.style = style],
                     None, shell)

\* The configuration format_module was given, before the defaults were merged.
RawConfig == CHOOSE raw \in ModuleLookupConfigs : merge_defaults(raw) = config

\* segment-local, then global, then the hard-coded default; an empty
\* segment-local background counts as unset.
ThreeLevel(local, global, default) ==
    IF IsSome(Config_get(RawConfig, local)) /\ Config_get(RawConfig, local) # Some(V_String(<<>>))
    THEN Unwrap(Config_get(RawConfig, local))[2]
    ELSE IF IsSome(Config_get(RawConfig, global))
    THEN Unwrap(Config_get(RawConfig, global))[2]
    ELSE default

\* The ansi_term style format_module paints "Hello" with.
ModuleStyleExpected ==
    Style_fg(Style_on(string_to_style(ThreeLevel(ModuleKey("user", "style"),
                                                <<"global", "style">>,
                                                <<"d", "e", "f", "a", "u", "l", "t">>))[2],
                      string_to_colour(ThreeLevel(ModuleKey("user", "background"),
                                                  <<"global", "background">>,
                                                  Str_blue))[2]),
             string_to_colour(ThreeLevel(ModuleKey("user", "foreground"),
                                         <<"global", "foreground">>,
                                         <<"b", "r", "i", "g", "h", "t", "_">> \o Str_white))[2])

ModulePaintedWith(style) ==
    /\ IsOk(Unwrap(result))
    /\ Contains(Unwrap(Unwrap(result)[2][2]),
                Style_prefix(style) \o <<"\\", "]", " ">> \o Str_Hello)

\* C23 as stated: a style field the segment leaves unset is rendered with
\* the global value, in both generations of the formatter.
C23_AsStated ==
    /\ GenericLookupReturned => Unwrap(result) = GenericRenderedWith(GenericStyle(TRUE))
    /\ ModuleLookupReturned => ModulePaintedWith(ModuleStyleExpected)

\* C23: read_options takes every style field from the segment's style table
\* alone: a field left unset there stays absent whatever global.foreground,
\* global.background and global.style hold, and the segment is rendered
\* without that colour or attribute.  The older format_module renders a
\* segment with the segment-local value if present, else the global value,
\* else the hard-coded default (bright_white, blue, default); an empty
\* segment-local background counts as unset.
C23_StyleLookup ==
    /\ GenericLookupReturned => Unwrap(result) = GenericRenderedWith(GenericStyle(FALSE))
    /\ ModuleLookupReturned => ModulePaintedWith(ModuleStyleExpected)

\* Reached: the segment sets no style field, global.* sets all three, and
\* format_generic rendered "Hello" with no escape sequence at all.
C23_Witness ==
    /\ GenericLookupReturned
    /\ Config_get(config, <<"global", "background">>) = Some(V_String(Str_green))
    /\ Config_get(config, <<"global", "foreground">>) = Some(V_String(Str_red))
    /\ Config_get(config, <<"global", "style">>) = Some(V_String(Str_italic))
    /\ DOMAIN config \cap {ModuleKey("user", "style") \o <<f>> :
                              f \in {"background", "foreground", "text_properties"}} = {}
    /\ Unwrap(result) = Ok([output |-> Some(<<" ">> \o Str_Hello \o <<" ">>),
                            next_bg |-> None])

---------------------------------------------------------------------------
(* Properties of the command executor (SpecExecutor, SpecExecutorFair)     *)

\* The threads that sent their output, and the threads that panicked.
Succeeded == {i \in 1..Len(threads) : threads[i].at \in {"sent", "finished"}}

Failed == {i \in 1..Len(threads) : threads[i].at = "panicked"}

\* main is past recv.iter().collect().
Collected == pc \in {"print", "done"}

\* The indices of a set in ascending order.
RECURSIVE Ascending(_)
Ascending(S) ==
    IF S = {} THEN <<>>
    ELSE LET least == CHOOSE i \in S : \A j \in S : i <= j
         IN  <<least>> \o Ascending(S \ {least})

\* The text printed for the output of request i.
PrintedText(i) ==
    CASE call.newlines = None -> <<"\n">> \o to_string(i) \o <<"\n">>
      [] call.newlines = Some(Str_leading) -> to_string(i) \o <<"\n">>
      [] call.newlines = Some(Str_trailing) -> <<"\n">> \o to_string(i)
      [] call.newlines = Some(Str_all) -> to_string(i)

\* C24: the outputs are printed in the order of the calls, whatever the
\* order in which the threads finished and sent: the collected results are
\* the sent ones in ascending index, and the k-th printed output is the
\* output of the k-th of them.
C24_CallOrder ==
    Collected =>
        /\ [k \in 1..Len(results) |-> results[k][1]] = Ascending(Succeeded)
        /\ Len(stdout) <= Len(results)
        /\ \A k \in 1..Len(stdout) : stdout[k].output = PrintedText(results[k][1])
        /\ pc = "done" => Len(stdout) = Len(results)

\* Reached: all of three commands succeeded and main printed the three
\* outputs in the order of the calls.
C24_Witness ==
    /\ pc = "done"
    /\ Len(commands) = 3
    /\ call.newlines = Some(Str_all)
    /\ [k \in 1..Len(stdout) |-> stdout[k].output] = <<<<"1">>, <<"2">>, <<"3">>>>

\* C25: if a command fails the whole batch fails: no output of another
\* command is printed.
C25_AllOrNothing == Failed # {} => stdout = <<>>

\* The failing input: the first of three commands failed and main printed
\* the outputs of the other two.
C25_Witness ==
    /\ pc = "done"
    /\ Len(commands) = 3
    /\ Failed = {1}
    /\ call.newlines = None
    /\ [k \in 1..Len(stdout) |-> stdout[k].output] = <<StdoutOf(2), StdoutOf(3)>>

\* What main prints whatever the commands do: the outputs of the commands
\* that succeeded, and nothing for a command that failed; main never fails.
PartialResults ==
    pc = "done" =>
        [k \in 1..Len(stdout) |-> stdout[k].output]
            = [k \in 1..Cardinality(Succeeded) |-> PrintedText(Ascending(Succeeded)[k])]

\* Every thread has sent its result or died without sending.
AllWorkersDone ==
    /\ Len(threads) = Len(commands)
    /\ \A i \in 1..Len(threads) : threads[i].at \in {"sent", "finished", "panicked"}

\* The live Senders are the one of main, until it is dropped, and the one of
\* every thread that has neither returned nor panicked.
LiveSenders ==
    send = (IF pc = "spawn" THEN 1 ELSE 0)
           + Cardinality({i \in 1..Len(threads) :
                             threads[i].at \in {"running", "sending", "sent"}})

\* C29: once every thread has sent its result or died without sending, the
\* iteration over the receiver ends and main goes on to print.
C29_CollectTerminates == AllWorkersDone ~> Collected

\* Reached: one thread panicked, the other sent, and main finished printing.
C29_Witness ==
    /\ pc = "done"
    /\ Len(commands) = 2
    /\ threads[1].at = "panicked"
    /\ threads[2].at = "finished"
    /\ Len(stdout) = 1

\* The command a header names: the text between the backticks.
Names(header, cmd) == Contains(header, <<"U+0060">> \o cmd \o <<"U+0060">>)

\* C30: with the separator option the k-th printed header names the command
\* whose index the k-th printed result carries.
C30_HeaderNamesCommand ==
    \A k \in 1..Len(stdout) :
        call.separator =>
            /\ IsSome(stdout[k].header)
            /\ Names(Unwrap(stdout[k].header), commands[results[k][1]])

\* The failing input: the first of two commands failed, and the output of
\* the second is printed under a header that names the first.
C30_Witness ==
    /\ pc = "done"
    /\ call.separator
    /\ Len(commands) = 2
    /\ Failed = {1}
    /\ call.newlines = None
    /\ stdout = <<[header |-> Some(<<"#", "1", ")", " ", "U+0060", "c", "1", "U+0060", "\n">>),
                   output |-> StdoutOf(2)]>>

\* The header of the k-th printed result names the k-th command of the
\* command line; that is the command of the result when no command failed.
HeaderNamesPosition ==
    \A k \in 1..Len(stdout) :
        /\ call.separator => stdout[k].header = Some(header_line(k, commands))
        /\ ~call.separator => stdout[k].header = None
        /\ Failed = {} => results[k][1] = k

---------------------------------------------------------------------------
(* Properties of the segment providers of both generations (SpecSegments)  *)

WritingProviders == {"format_module_prompt", "format_module_exit_code"}

\* The two configurations agree on every key other than `key`.
SameExcept(before, after, key) ==
    /\ DOMAIN after = DOMAIN before \union {key}
    /\ \A k \in DOMAIN before \ {key} : after[k] = before[k]

\* The text the configuration holds under modules.<name>.<field>, "" if none.
ConfiguredText(c, name, field) ==
    IF ModuleKey(name, field) \in DOMAIN c /\ c[ModuleKey(name, field)][1] = "String"
    THEN c[ModuleKey(name, field)][2]
    ELSE <<>>

\* The original statement of C26: no provider step changes the configuration.
C26_AsStated == [][config' = config]_vars

\* C26: the providers that take the configuration by shared reference
\* (cwd, exit_code, git, prompt, generic) leave it unchanged.  The older
\* format_module_prompt and format_module_exit_code write one key:
\* modules.<name>.background becomes the text of bg_success when the exit
\* code is 0 and of bg_error otherwise ("" when that key is unset); every
\* other key keeps its value.
C26_ConfigWrites ==
    [][IF call.fn \in WritingProviders
       THEN /\ SameExcept(config, config', ModuleKey(call.name, "background"))
            /\ config'[ModuleKey(call.name, "background")] =
                   V_String(ConfiguredText(config, call.name,
                                IF exit_code = 0 THEN "bg_success" ELSE "bg_error"))
       ELSE config' = config]_vars

\* format_module_prompt has returned after a successful command and the
\* configured background (unset or blue before the call) is now bg_success.
C26_Witness ==
    /\ call.fn = "format_module_prompt"
    /\ IsSome(result)
    /\ exit_code = 0
    /\ Config_get(config, ModuleKey("prompt", "bg_success")) = Some(V_String(Str_cyan))
    /\ Config_get(config, ModuleKey("prompt", "background")) = Some(V_String(Str_cyan))

SharedReferenceProviders ==
    {"format_cwd", "format_exit_code", "format_git", "format_prompt", "format_generic"}

\* A provider of the current generation has returned a FormatResult.
ProviderReturnedResult ==
    /\ call.fn \in SharedReferenceProviders
    /\ IsSome(result)
    /\ IsOk(Unwrap(result))

ReturnedResult == Unwrap(result)[2]

\* C27: a FormatResult without content has no next_bg; one with content has
\* as next_bg the background the configuration gives the style the segment
\* is painted with (style_success or style_error for exit_code and prompt,
\* style for cwd, git and generic segments), and when there is one its
\* escape code is in the content.
C27_ResultBackground ==
    ProviderReturnedResult =>
        /\ IsNone(ReturnedResult.output) => IsNone(ReturnedResult.next_bg)
        /\ IsSome(ReturnedResult.output) =>
              /\ ReturnedResult.next_bg = ResolvedBackground(call.name)
              /\ IsSome(ReturnedResult.next_bg) =>
                    Contains(Unwrap(ReturnedResult.output),
                             write_background_code(Unwrap(ReturnedResult.next_bg)))

\* format_prompt after a failed command, in front of a blue segment: the
\* segment's own style has a blue background, style_success a green one, and
\* the result carries the red of style_error.
C27_Witness ==
    /\ ProviderReturnedResult
    /\ call.fn = "format_prompt"
    /\ exit_code = 1
    /\ next_background = Some(<<"Blue">>)
    /\ Config_get(config, StyleKey("prompt", "background")) = Some(V_String(Str_blue))
    /\ Config_get(config, ModuleKey("prompt", "style_success") \o <<"background">>)
           = Some(V_String(Str_green))
    /\ IsSome(ReturnedResult.output)
    /\ ReturnedResult.next_bg = Some(<<"Red">>)

\* Results without content occur: a generic segment without output, and
\* the git segment outside a repository.
EmptyResults ==
    \/ ProviderReturnedResult /\ call.fn = "format_generic" /\ IsNone(ReturnedResult.output)
    \/ ProviderReturnedResult /\ call.fn = "format_git" /\ IsNone(ReturnedResult.output)

====
